---- MODULE Spec2Model ----
(***************************************************************************)
(* Model of the multi-agent constraint solving service (llm_service/agents)*)
(*                                                                         *)
(*   utils.py            extract_first_json                                *)
(*   solver_agent.py     SolverAgent.solve                                 *)
(*   refiner_agent.py    RefinerAgent.refine                               *)
(*   verifier_agent.py   VerifierAgent.verify and its helpers              *)
(*   orchestrator.py     MultiAgentOrchestrator.solve                      *)
(*                                                                         *)
(* The language model is an oracle: each llm.invoke either raises or       *)
(* returns a text.  A text is a sequence of tokens (a fence ```, prose, a  *)
(* brace that starts no JSON value, or a decodable JSON value); a JSON     *)
(* value is a record that says which keys it has and what they hold.       *)
(***************************************************************************)
EXTENDS Integers, Sequences, FiniteSets, TLC

(***************************************************************************)
(* Bounds of the model                                                     *)
(***************************************************************************)
\* the orchestrator is constructed with max_retries in -1 .. MaxMaxRetries
MaxMaxRetries == 3
\* number of solve calls made on the orchestrator
MaxCalls == 2
\* number of entries of the valuations given to verify
MaxEntries == 2
\* number of tokens of the texts given to extract_first_json
MaxTextLen == 5
\* number of tokens of the texts the model answers the endpoint with
MaxReplyLen == 3
\* number of segments of the dotted tokens written in the constraints
MaxDepth == 3

(***************************************************************************)
(* Variable paths.  A path is a sequence of segments; a segment is an      *)
(* identifier (stem and digits), possibly a '#' between stem and digits    *)
(* (then it is no identifier), and possibly the marker (ref).              *)
(***************************************************************************)
Seg(stem, sep, digits, ref) ==
    [stem |-> stem, sep |-> sep, digits |-> digits, ref |-> ref]

Ref(stem) == Seg(stem, "", "", TRUE)

Plain(stem) == Seg(stem, "", "", FALSE)

\* the value held by a key of a JSON object: absent, a string (a path), or
\* a value of another JSON type (null, num, list)
Str(path) == [kind |-> "str", path |-> path]

NonStr(kind) == [kind |-> kind, path |-> <<>>]

Absent == NonStr("absent")

head_ref == <<Ref("head")>>

head_next_ref == <<Ref("head"), Ref("next")>>

(***************************************************************************)
(* JSON values produced by the oracles                                     *)
(***************************************************************************)
Entry(isDict, variable, type, newObject, trueRef, reference) ==
    [isDict |-> isDict, variable |-> variable, type |-> type,
     newObject |-> newObject, trueRef |-> trueRef, reference |-> reference]

\* a reference entry that has all of type, newObject, trueRef, reference
RefEntry(path, type, reference) ==
    Entry(TRUE, Str(path), type, TRUE, TRUE, reference)

\* a primitive entry {variable, value}
PrimEntry(variable) ==
    Entry(TRUE, variable, "<absent>", FALSE, FALSE, "<absent>")

NotADict == Entry(FALSE, Absent, "<absent>", FALSE, FALSE, "<absent>")

\* a JSON value as extract_first_json returns it: nothing (Python None), an
\* object with the keys that are not "<absent>", or an array with the
\* strings elems among its elements
None ==
    [top |-> "none", elems |-> {}, result |-> "<absent>", valKind |-> "absent",
     valuation |-> <<>>, ownRaw |-> FALSE, ownIterations |-> FALSE,
     compatible |-> "<absent>", reason |-> "<absent>"]

\* the JSON object {}
EmptyDict == [None EXCEPT !.top = "dict"]

\* a top-level JSON array
List(elems) == [None EXCEPT !.top = "list", !.elems = elems]

\* {"result": result}
Result(result) == [EmptyDict EXCEPT !.result = result]

\* {"result": "SAT", "valuation": [...]}
Sat(valuation) ==
    [EmptyDict EXCEPT !.result = "SAT", !.valKind = "list", !.valuation = valuation]

\* {"compatible": ..., "reason": ...}
Verdict(compatible, reason) ==
    [EmptyDict EXCEPT !.compatible = compatible, !.reason = reason]

(***************************************************************************)
(* Texts                                                                   *)
(***************************************************************************)
Tok(k) == [k |-> k, json |-> None]

Fence == Tok("fence")

Prose == Tok("prose")

\* a '{' or '[' at which no JSON value starts, as in "I use {x} here"
Brace == Tok("brace")

JsonTok(j) == [k |-> "json", json |-> j]

\* the start of the text of a JSON value j, up to the opening quote of its
\* last string, as {"result": "UNKNOWN", "raw": " in
\* {"result": "UNKNOWN", "raw": "see ```[]``` ..."}
OpenTok(j) == [k |-> "open", json |-> j]

\* the end of the text of a JSON value that an OpenTok starts: "}
Close == Tok("close")

\* the token holds a double quote: it ends a string that is open before it
HasQuote(tok) ==
    \/ tok.k \in {"open", "close"}
    \/ tok.k = "json" /\ (tok.json.top = "dict" \/ tok.json.elems # {})

(***************************************************************************)
(* utils.py: extract_first_json                                            *)
(***************************************************************************)
\* positions of the fences of src
FencePositions(src) == {i \in 1..Len(src) : src[i].k = "fence"}

\* the n-th smallest element of a set of positions
RECURSIVE NthPos(_, _)
NthPos(S, n) ==
    LET m == CHOOSE x \in S : \A y \in S : x <= y
    IN  IF n = 1 THEN m ELSE NthPos(S \ {m}, n - 1)

\* the whole text scanned after the fenced blocks
_candidate_blocks_ThenAll(src) ==
    LET F == FencePositions(src)
        n == Cardinality(F) \div 2
    IN  [b \in 1..n + 1 |->
            IF b = n + 1 THEN src
            ELSE SubSeq(src, NthPos(F, 2 * b - 1) + 1, NthPos(F, 2 * b) - 1)]

\* re.findall(r"```(?:json)?\s*(.*?)```", src): the text between the 1st and
\* the 2nd fence, between the 3rd and the 4th, ...; the whole text when
\* there is no such pair
_candidate_blocks(src) ==
    LET F == FencePositions(src)
        n == Cardinality(F) \div 2
        blocks == [b \in 1..n |->
                     SubSeq(src, NthPos(F, 2 * b - 1) + 1, NthPos(F, 2 * b) - 1)]
    IN  IF n > 0 THEN blocks ELSE <<src>>

\* a string result: block[idx:end], or Python None
Substring(text) == [present |-> TRUE, text |-> text]

NoSubstring == [present |-> FALSE, text |-> <<>>]

\* return None, None
NotFound == <<None, NoSubstring>>

\* the decoder tried at every character (line 51 left out): a number or a
\* word such as true in the prose decodes to a scalar
raw_decode_Scalars(block, idx) ==
    LET quotes == {j \in idx + 1..Len(block) : HasQuote(block[j])}
        first == CHOOSE j \in quotes : \A x \in quotes : j <= x
    IN  IF block[idx].k = "json"
        THEN [ok |-> TRUE, obj |-> block[idx].json, end |-> idx]
        ELSE IF block[idx].k = "open" /\ quotes # {} /\ block[first].k = "close"
        THEN [ok |-> TRUE, obj |-> block[idx].json, end |-> first]
        ELSE IF block[idx].k = "prose"
        THEN [ok |-> TRUE, obj |-> [None EXCEPT !.top = "scalar"], end |-> idx]
        ELSE [ok |-> FALSE, obj |-> None, end |-> idx]

\* decoder.raw_decode(block, idx): whether a value decodes at idx, the value,
\* and the position of its last token (a JSONDecodeError is ok = FALSE, and
\* so is a character that is not '{' or '[', which line 51 skips); the
\* string an OpenTok opens ends at the next quote, which has to be a Close
raw_decode(block, idx) ==
    LET quotes == {j \in idx + 1..Len(block) : HasQuote(block[j])}
        first == CHOOSE j \in quotes : \A x \in quotes : j <= x
    IN  IF block[idx].k = "json"
        THEN [ok |-> TRUE, obj |-> block[idx].json, end |-> idx]
        ELSE IF block[idx].k = "open" /\ quotes # {} /\ block[first].k = "close"
        THEN [ok |-> TRUE, obj |-> block[idx].json, end |-> first]
        ELSE [ok |-> FALSE, obj |-> None, end |-> idx]

\* the substring returned as block[idx + 1:end]: its first token is lost
RECURSIVE ScanBlock_OffByOne(_, _)
ScanBlock_OffByOne(block, idx) ==
    IF idx > Len(block) THEN NotFound
    ELSE LET d == raw_decode(block, idx)
         IN  IF d.ok THEN <<d.obj, Substring(SubSeq(block, idx + 1, d.end))>>
             ELSE ScanBlock_OffByOne(block, idx + 1)

\* the scan that gives up a block at the first '{' or '[' that fails to decode
RECURSIVE ScanBlock_StopAtFailure(_, _)
ScanBlock_StopAtFailure(block, idx) ==
    IF idx > Len(block) THEN NotFound
    ELSE LET d == raw_decode(block, idx)
         IN  IF d.ok THEN <<d.obj, Substring(SubSeq(block, idx, d.end))>>
             ELSE IF block[idx].k \in {"brace", "open"} THEN NotFound
             ELSE ScanBlock_StopAtFailure(block, idx + 1)

\* the scan of one block from idx: the first position that decodes
RECURSIVE ScanBlock(_, _)
ScanBlock(block, idx) ==
    IF idx > Len(block) THEN NotFound
    ELSE LET d == raw_decode(block, idx)
         IN  IF d.ok THEN <<d.obj, Substring(SubSeq(block, idx, d.end))>>
             ELSE ScanBlock(block, idx + 1)

RECURSIVE ScanBlocks(_, _)
ScanBlocks(blocks, b) ==
    IF b > Len(blocks) THEN NotFound
    ELSE LET found == ScanBlock(blocks[b], 1)
         IN  IF found # NotFound THEN found ELSE ScanBlocks(blocks, b + 1)

\* the pair (decoded value, matched substring)
extract_first_json(text) == ScanBlocks(_candidate_blocks(text), 1)

(***************************************************************************)
(* verifier_agent.py: _extract_base_variables_from_constraints             *)
(* A constraint is the sequence of the dotted tokens written in it; the    *)
(* operators and literals between them carry no marker and are dropped.    *)
(***************************************************************************)
HasRefMarker(path) == \E i \in 1..Len(path) : path[i].ref

\* the pattern without its group (?:\.identifier\(ref\))*: a match is one
\* segment
MatchEnd_NoChain(path, j) == j

\* one match of the pattern that starts at segment i: the identifier, its
\* optional (ref), then every following .identifier(ref); it ends before
\* the first segment that has no (ref)
RECURSIVE MatchEnd(_, _)
MatchEnd(path, j) ==
    IF j < Len(path) /\ path[j + 1].ref THEN MatchEnd(path, j + 1) ELSE j

\* re.findall over one dotted token: the matches, left to right, not
\* overlapping
RECURSIVE FindAll(_, _)
FindAll(path, i) ==
    IF i > Len(path) THEN {}
    ELSE LET j == MatchEnd(path, i)
         IN  {SubSeq(path, i, j)} \cup FindAll(path, j + 1)

\* the dotted tokens of all constraints
ConstraintTokens(constraints) ==
    UNION {{constraints[c][t] : t \in 1..Len(constraints[c])} :
             c \in 1..Len(constraints)}

\* the test of line 297 left out: every match is kept
_extract_base_variables_from_constraints_All(constraints) ==
    {Str(match) : match \in
        UNION {FindAll(tok, 1) : tok \in ConstraintTokens(constraints)}}

_extract_base_variables_from_constraints(constraints) ==
    {Str(match) : match \in
        {m \in UNION {FindAll(tok, 1) : tok \in ConstraintTokens(constraints)} :
            HasRefMarker(m)}}

(***************************************************************************)
(* verifier_agent.py: _validate_variable_name                              *)
(***************************************************************************)
\* the patterns matched without re.IGNORECASE
Lower_CaseSensitive(stem) == stem

\* re.IGNORECASE on the stems used in the model
Lower(stem) ==
    CASE stem = "OBJ" -> "obj"
      [] stem = "Node" -> "node"
      [] OTHER -> stem

InvalidStems == {"obj", "node", "temp", "var", "item", "element"}

\* ^stem#?\d+$ for one of the six stems
MatchesInvalidPattern(var_name) ==
    /\ Len(var_name.path) = 1
    /\ ~var_name.path[1].ref
    /\ Lower(var_name.path[1].stem) \in InvalidStems
    /\ var_name.path[1].digits # ""

\* the last line returning False: a name that is in no constraint is
\* rejected, with or without the marker
_validate_variable_name_Strict(var_name, base_variables) ==
    IF var_name \in base_variables THEN "ok"
    ELSE IF var_name.kind # "str" THEN "raise"
    ELSE "reject"

\* "ok", "reject", or "raise" (re.match on a value that is no string)
_validate_variable_name(var_name, base_variables) ==
    IF var_name \in base_variables THEN "ok"
    ELSE IF var_name.kind # "str" THEN "raise"
    ELSE IF MatchesInvalidPattern(var_name) THEN "reject"
    ELSE IF HasRefMarker(var_name.path) THEN "reject"
    ELSE "ok"

(***************************************************************************)
(* Error reports and log entries                                           *)
(***************************************************************************)
\* an error report: which message, and the values formatted into it
ErrorReport(code, idx, vars, keys, raw, reason) ==
    [code |-> code, idx |-> idx, vars |-> vars, keys |-> keys,
     raw |-> raw, reason |-> reason]

\* the empty string
NoError == ErrorReport("", -1, {}, {}, <<>>, "")

Err(code) == ErrorReport(code, -1, {}, {}, <<>>, "")

\* a conversation log entry; human holds the parts of the prompt that vary,
\* iteration 0 is an entry that has no "iteration" key yet
LogEntry(agent, stage, human, response, error) ==
    [agent |-> agent, stage |-> stage, human |-> human, response |-> response,
     error |-> error, iteration |-> 0]

Human(raw, err, var, type) == [raw |-> raw, err |-> err, var |-> var, type |-> type]

\* an answer of llm.invoke: it raises, or returns response.content
Raises == [raise |-> TRUE, content |-> <<>>]

Returns(content) == [raise |-> FALSE, content |-> content]

(***************************************************************************)
(* verifier_agent.py: _check_type_compatibility_with_llm                   *)
(***************************************************************************)
\* the verdict of line 255 ignored: every answer counts as compatible
_check_type_compatibility_with_llm_Lenient(var_name, assigned_type, r) ==
    LET human == Human(<<>>, NoError, var_name, assigned_type)
    IN  [is_compatible |-> TRUE, reason |-> "",
         log_entry |-> LogEntry("verifier", "type_check", human, r.content, r.raise)]

\* the except branch of line 261 answering False: the check fails closed
_check_type_compatibility_with_llm_FailClosed(var_name, assigned_type, r) ==
    LET human == Human(<<>>, NoError, var_name, assigned_type)
        parsed == extract_first_json(r.content)[1]
        log_entry == LogEntry("verifier", "type_check", human, r.content, FALSE)
        failed == [is_compatible |-> FALSE, reason |-> "LLM check failed",
                   log_entry |-> LogEntry("verifier", "type_check", human, <<>>, TRUE)]
    IN  IF r.raise THEN failed
        ELSE IF parsed.top = "list" /\ "compatible" \in parsed.elems
        THEN failed
        ELSE IF parsed.top = "dict" /\ parsed.compatible # "<absent>"
        THEN [is_compatible |-> parsed.compatible = "true",
              reason |-> IF parsed.reason = "<absent>" THEN "No reason provided"
                         ELSE parsed.reason,
              log_entry |-> log_entry]
        ELSE [is_compatible |-> TRUE, reason |-> "LLM check inconclusive",
              log_entry |-> log_entry]

_check_type_compatibility_with_llm(var_name, assigned_type, r) ==
    LET human == Human(<<>>, NoError, var_name, assigned_type)
        parsed == extract_first_json(r.content)[1]
        log_entry == LogEntry("verifier", "type_check", human, r.content, FALSE)
        failed == [is_compatible |-> TRUE, reason |-> "LLM check failed",
                   log_entry |-> LogEntry("verifier", "type_check", human, <<>>, TRUE)]
    IN  IF r.raise THEN failed
        ELSE IF parsed.top = "list" /\ "compatible" \in parsed.elems
        THEN failed  \* parsed.get raises AttributeError, caught at line 261
        ELSE IF parsed.top = "dict" /\ parsed.compatible # "<absent>"
        THEN [is_compatible |-> parsed.compatible = "true",
              reason |-> IF parsed.reason = "<absent>" THEN "No reason provided"
                         ELSE parsed.reason,
              log_entry |-> log_entry]
        ELSE [is_compatible |-> TRUE, reason |-> "LLM check inconclusive",
              log_entry |-> log_entry]

(***************************************************************************)
(* verifier_agent.py: verify                                               *)
(***************************************************************************)
\* "reference" left out of required_ref_fields
MissingRefFields_NoReference(entry) ==
    {k \in {"newObject", "trueRef"} :
        \/ k = "newObject" /\ ~entry.newObject
        \/ k = "trueRef" /\ ~entry.trueRef}

\* lines 144-147
MissingRefFields(entry) ==
    {k \in {"newObject", "trueRef", "reference"} :
        \/ k = "newObject" /\ ~entry.newObject
        \/ k = "trueRef" /\ ~entry.trueRef
        \/ k = "reference" /\ entry.reference = "<absent>"}

Failed(error_report, logs) ==
    [raised |-> FALSE, is_valid |-> FALSE, error_report |-> error_report,
     output |-> None, logs |-> logs]

Raised(logs) ==
    [raised |-> TRUE, is_valid |-> FALSE, error_report |-> NoError,
     output |-> None, logs |-> logs]

\* the elif of line 174 written as an if: an entry of type "null" that has a
\* reference is put in both sets
ConsistencyCheck_NoPrecedence(solver_output, logs) ==
    LET valuation == solver_output.valuation
        null_refs == {valuation[i].variable : i \in
                        {j \in 1..Len(valuation) : valuation[j].type = "null"}}
        non_null_refs == {valuation[i].variable : i \in
                        {j \in 1..Len(valuation) :
                            valuation[j].reference \notin {"<absent>", "null"}}}
        conflicts == null_refs \cap non_null_refs
    IN  IF conflicts # {}
        THEN Failed(ErrorReport("conflict", -1, conflicts, {}, <<>>, ""), logs)
        ELSE [raised |-> FALSE, is_valid |-> TRUE, error_report |-> NoError,
              output |-> solver_output, logs |-> logs]

\* a conflict only noted: the candidate is returned as valid together with
\* the report of the conflict
ConsistencyCheck_WarnOnly(solver_output, logs) ==
    LET valuation == solver_output.valuation
        null_refs == {valuation[i].variable : i \in
                        {j \in 1..Len(valuation) : valuation[j].type = "null"}}
        non_null_refs == {valuation[i].variable : i \in
                        {j \in 1..Len(valuation) :
                            /\ valuation[j].type # "null"
                            /\ valuation[j].reference \notin {"<absent>", "null"}}}
        conflicts == null_refs \cap non_null_refs
    IN  [raised |-> FALSE, is_valid |-> TRUE,
         error_report |-> IF conflicts # {}
                          THEN ErrorReport("conflict", -1, conflicts, {}, <<>>, "")
                          ELSE NoError,
         output |-> solver_output, logs |-> logs]

\* lines 167-179
ConsistencyCheck(solver_output, logs) ==
    LET valuation == solver_output.valuation
        null_refs == {valuation[i].variable : i \in
                        {j \in 1..Len(valuation) : valuation[j].type = "null"}}
        non_null_refs == {valuation[i].variable : i \in
                        {j \in 1..Len(valuation) :
                            /\ valuation[j].type # "null"
                            /\ valuation[j].reference \notin {"<absent>", "null"}}}
        conflicts == null_refs \cap non_null_refs
    IN  IF conflicts # {}
        THEN Failed(ErrorReport("conflict", -1, conflicts, {}, <<>>, ""), logs)
        ELSE [raised |-> FALSE, is_valid |-> TRUE, error_report |-> NoError,
              output |-> solver_output, logs |-> logs]

\* the completeness check of lines 142-148 moved before the name check of
\* lines 133-140
RECURSIVE ValidateEntries_FieldsFirst(_, _, _, _, _, _)
ValidateEntries_FieldsFirst(solver_output, idx, base_variables, type_hierarchy, tc, logs) ==
    IF idx > Len(solver_output.valuation)
    THEN ConsistencyCheck(solver_output, logs)
    ELSE
    LET entry == solver_output.valuation[idx]
        var_name == entry.variable
        name_ok == _validate_variable_name(var_name, base_variables)
        missing == MissingRefFields(entry)
        asked == /\ type_hierarchy # {}
                 /\ entry.type # "<absent>"
                 /\ var_name \in type_hierarchy
        compat == _check_type_compatibility_with_llm(var_name, entry.type, tc[idx])
        logs2 == IF asked THEN Append(logs, compat.log_entry) ELSE logs
    IN  IF ~entry.isDict
        THEN Failed(ErrorReport("entry_not_dict", idx - 1, {}, {}, <<>>, ""), logs)
        ELSE IF var_name.kind = "absent"
        THEN Failed(ErrorReport("entry_missing_variable", idx - 1, {}, {}, <<>>, ""), logs)
        ELSE IF entry.type \notin {"<absent>", "null"} /\ missing # {}
        THEN Failed(ErrorReport("missing_fields", idx - 1, {}, missing, <<>>, ""), logs)
        ELSE IF name_ok = "raise"
        THEN Raised(logs)
        ELSE IF name_ok = "reject"
        THEN Failed(ErrorReport("invalid_name", idx - 1, {var_name}, {}, <<>>, ""), logs)
        ELSE IF asked /\ ~compat.is_compatible
        THEN Failed(ErrorReport("type_incompat", -1, {var_name}, {}, <<>>, compat.reason),
                    logs2)
        ELSE ValidateEntries_FieldsFirst(solver_output, idx + 1, base_variables,
                                         type_hierarchy, tc, logs2)

\* lines 126-165, from entry idx on (idx is 1-based here, reported 0-based);
\* tc[idx] is the answer the model gives if it is asked about entry idx
RECURSIVE ValidateEntries(_, _, _, _, _, _)
ValidateEntries(solver_output, idx, base_variables, type_hierarchy, tc, logs) ==
    IF idx > Len(solver_output.valuation)
    THEN ConsistencyCheck(solver_output, logs)
    ELSE
    LET entry == solver_output.valuation[idx]
        var_name == entry.variable
        name_ok == _validate_variable_name(var_name, base_variables)
        missing == MissingRefFields(entry)
        asked == /\ type_hierarchy # {}
                 /\ entry.type # "<absent>"
                 /\ var_name \in type_hierarchy
        compat == _check_type_compatibility_with_llm(var_name, entry.type, tc[idx])
        logs2 == IF asked THEN Append(logs, compat.log_entry) ELSE logs
    IN  IF ~entry.isDict
        THEN Failed(ErrorReport("entry_not_dict", idx - 1, {}, {}, <<>>, ""), logs)
        ELSE IF var_name.kind = "absent"
        THEN Failed(ErrorReport("entry_missing_variable", idx - 1, {}, {}, <<>>, ""), logs)
        ELSE IF name_ok = "raise"
        THEN Raised(logs)
        ELSE IF name_ok = "reject"
        THEN Failed(ErrorReport("invalid_name", idx - 1, {var_name}, {}, <<>>, ""), logs)
        ELSE IF entry.type \notin {"<absent>", "null"} /\ missing # {}
        THEN Failed(ErrorReport("missing_fields", idx - 1, {}, missing, <<>>, ""), logs)
        ELSE IF asked /\ ~compat.is_compatible
        THEN Failed(ErrorReport("type_incompat", -1, {var_name}, {}, <<>>, compat.reason),
                    logs2)
        ELSE ValidateEntries(solver_output, idx + 1, base_variables, type_hierarchy,
                             tc, logs2)

\* a result that passes the result check because the list of line 98 is
\* one value too long
ValidResults_Lenient == {"SAT", "UNSAT", "UNKNOWN", "MAYBE"}

\* line 98
ValidResults == {"SAT", "UNSAT", "UNKNOWN"}

\* the valuation checks applied whatever the result is
ChecksValuation_Always(result) == TRUE

\* line 102
ChecksValuation(result) == result = "SAT"

\* the exhaustiveness check left out
missing_vars_None(base_variables, valuation_vars) == {}

\* line 118
missing_vars_of(base_variables, valuation_vars) == base_variables \ valuation_vars

verify(solver_output, raw_output, constraints, type_hierarchy, tc) ==
    LET conversation_logs == <<>>
        result == solver_output.result
        valuation == solver_output.valuation
        base_variables == _extract_base_variables_from_constraints(constraints)
        dicts == {i \in 1..Len(valuation) : valuation[i].isDict}
        \* entry.get("variable") is None when the key is absent
        valuation_vars == {IF valuation[i].variable.kind = "absent"
                           THEN NonStr("null") ELSE valuation[i].variable : i \in dicts}
        missing_vars == missing_vars_of(base_variables, valuation_vars)
    IN  IF solver_output = None
        THEN Failed(ErrorReport("extract", -1, {}, {}, raw_output, ""), conversation_logs)
        ELSE IF solver_output.top = "list" /\ "result" \notin solver_output.elems
        THEN Failed(Err("missing_result"), conversation_logs)
        ELSE IF solver_output.top = "list"
        THEN Raised(conversation_logs)  \* a list has no .get: AttributeError
        ELSE IF result = "<absent>"
        THEN Failed(Err("missing_result"), conversation_logs)
        ELSE IF result \notin ValidResults
        THEN Failed(ErrorReport("invalid_result", -1, {}, {}, <<>>, result),
                    conversation_logs)
        ELSE IF ~ChecksValuation(result)
        THEN [raised |-> FALSE, is_valid |-> TRUE, error_report |-> NoError,
              output |-> solver_output, logs |-> conversation_logs]
        ELSE IF solver_output.valKind = "absent"
        THEN Failed(Err("missing_valuation"), conversation_logs)
        ELSE IF solver_output.valKind # "list"
        THEN Failed(Err("valuation_not_array"), conversation_logs)
        ELSE IF Len(valuation) = 0
        THEN Failed(Err("empty_valuation"), conversation_logs)
        ELSE IF \E i \in dicts : valuation[i].variable.kind = "list"
        THEN Raised(conversation_logs)  \* unhashable set element: TypeError
        ELSE IF missing_vars # {}
        THEN Failed(ErrorReport("missing_vars", -1, missing_vars, {}, <<>>, ""),
                    conversation_logs)
        ELSE ValidateEntries(solver_output, 1, base_variables, type_hierarchy, tc,
                             conversation_logs)

(***************************************************************************)
(* solver_agent.py: SolverAgent.solve, refiner_agent.py: RefinerAgent.refine*)
(* r is the answer of llm.invoke                                           *)
(***************************************************************************)
\* f"Error during Solver invocation: {str(e)}"
SolverErrorText == <<Tok("solver_error")>>

\* f"Error during Refiner invocation: {str(e)}"
RefinerErrorText == <<Tok("refiner_error")>>

\* the handler of line 238 returning an empty raw text
SolverAgent_solve_EmptyRaw(r) ==
    LET human == Human(<<>>, NoError, Absent, "<absent>")
    IN  IF r.raise
        THEN [parsed |-> None, raw_output |-> <<>>,
              log_entry |-> LogEntry("solver", "solve", human, <<>>, TRUE)]
        ELSE [parsed |-> extract_first_json(r.content)[1], raw_output |-> r.content,
              log_entry |-> LogEntry("solver", "solve", human, r.content, FALSE)]

SolverAgent_solve(r) ==
    LET human == Human(<<>>, NoError, Absent, "<absent>")
    IN  IF r.raise
        THEN [parsed |-> None, raw_output |-> SolverErrorText,
              log_entry |-> LogEntry("solver", "solve", human, <<>>, TRUE)]
        ELSE [parsed |-> extract_first_json(r.content)[1], raw_output |-> r.content,
              log_entry |-> LogEntry("solver", "solve", human, r.content, FALSE)]

RefinerAgent_refine(solver_output_raw, error_report, r) ==
    LET human == Human(solver_output_raw, error_report, Absent, "<absent>")
    IN  IF r.raise
        THEN [parsed |-> None, raw_output |-> RefinerErrorText,
              log_entry |-> LogEntry("refiner", "refine", human, <<>>, TRUE)]
        ELSE [parsed |-> extract_first_json(r.content)[1], raw_output |-> r.content,
              log_entry |-> LogEntry("refiner", "refine", human, r.content, FALSE)]

(***************************************************************************)
(* Inputs of the model: the constraints and type hierarchies solve is      *)
(* called with, and the answers the language model gives                   *)
(***************************************************************************)
\* ["head(ref) != null", "head(ref).next(ref) == null"]
ExampleConstraints ==
    << <<head_ref, <<Plain("null")>> >>, <<head_next_ref, <<Plain("null")>> >> >>

ConstraintLists == {ExampleConstraints, <<>>}

\* the keys of the type_hierarchy dict; {} is None or the empty dict
TypeHierarchies == {{}, {Str(<<Plain("head")>>)}, {Str(head_ref)}}

ExampleValuation ==
    <<RefEntry(head_ref, "LNode;", "1"),
      Entry(TRUE, Str(head_next_ref), "null", TRUE, TRUE, "null")>>

obj_1 == Str(<<Seg("obj", "#", "1", FALSE)>>)

\* the texts the Solver and Refiner models answer with
Contents ==
    { <<Fence, JsonTok(Sat(ExampleValuation)), Fence>>,
      <<Prose, Brace, JsonTok(Result("UNSAT"))>>,
      <<JsonTok([Result("UNKNOWN") EXCEPT !.ownRaw = TRUE, !.ownIterations = TRUE])>>,
      <<Prose, Brace>>,
      <<JsonTok(Result("MAYBE"))>>,
      <<JsonTok(Sat(<<RefEntry(head_ref, "LNode;", "1")>>))>>,
      <<JsonTok(Sat(ExampleValuation \o <<PrimEntry(obj_1)>>))>>,
      <<JsonTok(Sat(ExampleValuation \o <<PrimEntry(NonStr("num"))>>))>>,
      <<JsonTok(Sat(<<PrimEntry(NonStr("list"))>>))>>,
      <<JsonTok(List({"result"}))>> }

LLMAnswers == {Raises} \cup {Returns(c) : c \in Contents}

\* the answers of the model to a type compatibility question
TypeCheckAnswers ==
    { Raises,
      Returns(<<Prose>>),
      Returns(<<JsonTok(Verdict("true", "fits"))>>),
      Returns(<<JsonTok(Verdict("false", "unrelated class"))>>),
      Returns(<<JsonTok(List({"compatible"}))>>) }

\* the entries verify may ask the model about
TypeCheckIndexes(solver_output, type_hierarchy) ==
    {i \in 1..Len(solver_output.valuation) :
        /\ solver_output.valuation[i].type # "<absent>"
        /\ solver_output.valuation[i].variable \in type_hierarchy}

(***************************************************************************)
(* orchestrator.py: MultiAgentOrchestrator                                 *)
(***************************************************************************)
\* the threads that call solve on the one orchestrator
Threads == {1, 2}

MainThread == 1

VARIABLES
    max_retries,         \* self.max_retries
    conversation_logs,   \* self.conversation_logs
    pc,                  \* per thread: where its solve call is
    constraints,         \* per thread: argument of solve
    type_hierarchy,      \* per thread: argument of solve
    iteration,           \* per thread: local of solve
    solver_output,       \* per thread: local of solve
    solver_output_raw,   \* per thread: local of solve
    error_report,        \* per thread: local of solve
    is_valid,            \* per thread: local of solve
    outcome,             \* per thread: what the last solve call returned
    invocations,         \* per thread: the llm.invoke calls of its solve call
    ncalls               \* per thread: number of solve calls started

vars == <<max_retries, conversation_logs, pc, constraints, type_hierarchy,
          iteration, solver_output, solver_output_raw, error_report, is_valid,
          outcome, invocations, ncalls>>

\* the dict solve returns: the keys of the copied candidate in json, and
\* the keys solve sets
Outcome(json, raw, has_verification_error, verification_error, iterations) ==
    [json |-> json, raw |-> raw,
     has_verification_error |-> has_verification_error,
     verification_error |-> verification_error, iterations |-> iterations]

\* the value of the "raw" key: the candidate's own, or the given text
OwnRaw == [own |-> TRUE, text |-> <<>>]

RawText(text) == [own |-> FALSE, text |-> text]

NoOutcome == Outcome(None, RawText(<<>>), FALSE, NoError, -1)

\* orchestrator.py __init__, lines 37-71
Init ==
    /\ max_retries \in -1..MaxMaxRetries
    /\ conversation_logs = <<>>
    /\ pc = [t \in Threads |-> "idle"]
    /\ constraints = [t \in Threads |-> <<>>]
    /\ type_hierarchy = [t \in Threads |-> {}]
    /\ iteration = [t \in Threads |-> 0]
    /\ solver_output = [t \in Threads |-> None]
    /\ solver_output_raw = [t \in Threads |-> <<>>]
    /\ error_report = [t \in Threads |-> NoError]
    /\ is_valid = [t \in Threads |-> FALSE]
    /\ outcome = [t \in Threads |-> NoOutcome]
    /\ invocations = [t \in Threads |-> <<>>]
    /\ ncalls = [t \in Threads |-> 0]

\* the entries appended as verify returned them, line 161 left out
Tagged_NoTag(logs, n) == logs

\* tag the entries with the iteration (lines 135, 149, 161)
Tagged(logs, n) == [i \in 1..Len(logs) |-> [logs[i] EXCEPT !.iteration = n]]

\* the log list created in __init__ only: line 120 left out
CallWith_KeepsLogs(t, css, ths) ==
    /\ pc[t] \in {"idle", "returned", "raised"}
    /\ ncalls[t] < MaxCalls
    /\ \E cs \in css, th \in ths :
          /\ constraints' = [constraints EXCEPT ![t] = cs]
          /\ type_hierarchy' = [type_hierarchy EXCEPT ![t] = th]
    /\ iteration' = [iteration EXCEPT ![t] = 0]
    /\ solver_output_raw' = [solver_output_raw EXCEPT ![t] = <<>>]
    /\ error_report' = [error_report EXCEPT ![t] = NoError]
    /\ solver_output' = [solver_output EXCEPT ![t] = None]
    /\ is_valid' = [is_valid EXCEPT ![t] = FALSE]
    /\ outcome' = [outcome EXCEPT ![t] = NoOutcome]
    /\ invocations' = [invocations EXCEPT ![t] = <<>>]
    /\ ncalls' = [ncalls EXCEPT ![t] = @ + 1]
    /\ pc' = [pc EXCEPT ![t] = "while"]
    /\ UNCHANGED <<max_retries, conversation_logs>>

\* solve is called with constraints of css and a type hierarchy of ths:
\* lines 117-120
CallWith(t, css, ths) ==
    /\ pc[t] \in {"idle", "returned", "raised"}
    /\ ncalls[t] < MaxCalls
    /\ \E cs \in css, th \in ths :
          /\ constraints' = [constraints EXCEPT ![t] = cs]
          /\ type_hierarchy' = [type_hierarchy EXCEPT ![t] = th]
    /\ iteration' = [iteration EXCEPT ![t] = 0]
    /\ solver_output_raw' = [solver_output_raw EXCEPT ![t] = <<>>]
    /\ error_report' = [error_report EXCEPT ![t] = NoError]
    /\ conversation_logs' = <<>>
    /\ solver_output' = [solver_output EXCEPT ![t] = None]
    /\ is_valid' = [is_valid EXCEPT ![t] = FALSE]
    /\ outcome' = [outcome EXCEPT ![t] = NoOutcome]
    /\ invocations' = [invocations EXCEPT ![t] = <<>>]
    /\ ncalls' = [ncalls EXCEPT ![t] = @ + 1]
    /\ pc' = [pc EXCEPT ![t] = "while"]
    /\ UNCHANGED max_retries

Call(t) == CallWith(t, ConstraintLists, TypeHierarchies)

\* line 122 holds, line 123
WhileEnter(t) ==
    /\ pc[t] = "while"
    /\ iteration[t] <= max_retries
    /\ iteration' = [iteration EXCEPT ![t] = @ + 1]
    /\ pc' = [pc EXCEPT ![t] = "generate"]
    /\ UNCHANGED <<max_retries, conversation_logs, constraints, type_hierarchy,
                   solver_output, solver_output_raw, error_report, is_valid,
                   outcome, invocations, ncalls>>

\* line 122 fails, lines 183-187
WhileExit(t) ==
    /\ pc[t] = "while"
    /\ ~(iteration[t] <= max_retries)
    /\ outcome' = [outcome EXCEPT ![t] =
          Outcome(Result("UNKNOWN"), RawText(solver_output_raw[t]), FALSE, NoError,
                  iteration[t])]
    /\ pc' = [pc EXCEPT ![t] = "returned"]
    /\ UNCHANGED <<max_retries, conversation_logs, constraints, type_hierarchy,
                   iteration, solver_output, solver_output_raw, error_report,
                   is_valid, invocations, ncalls>>

\* lines 125-136, the model answering with one of answers
SolveWith(t, answers) ==
    /\ pc[t] = "generate"
    /\ iteration[t] = 1
    /\ \E r \in answers :
          LET got == SolverAgent_solve(r)
              solver_log == [got.log_entry EXCEPT !.iteration = iteration[t]]
          IN  /\ solver_output' = [solver_output EXCEPT ![t] = got.parsed]
              /\ solver_output_raw' = [solver_output_raw EXCEPT ![t] = got.raw_output]
              /\ conversation_logs' = Append(conversation_logs, solver_log)
              /\ invocations' = [invocations EXCEPT ![t] = Append(@, solver_log)]
    /\ pc' = [pc EXCEPT ![t] = "verify"]
    /\ UNCHANGED <<max_retries, constraints, type_hierarchy, iteration,
                   error_report, is_valid, outcome, ncalls>>

Solve(t) == SolveWith(t, LLMAnswers)

\* the Refiner called without the report of the failed validation
RefineWith_EmptyReport(t, answers) ==
    /\ pc[t] = "generate"
    /\ iteration[t] # 1
    /\ \E r \in answers :
          LET got == RefinerAgent_refine(solver_output_raw[t], NoError, r)
              refiner_log == [got.log_entry EXCEPT !.iteration = iteration[t]]
          IN  /\ solver_output' = [solver_output EXCEPT ![t] = got.parsed]
              /\ solver_output_raw' = [solver_output_raw EXCEPT ![t] = got.raw_output]
              /\ conversation_logs' = Append(conversation_logs, refiner_log)
              /\ invocations' = [invocations EXCEPT ![t] = Append(@, refiner_log)]
    /\ pc' = [pc EXCEPT ![t] = "verify"]
    /\ UNCHANGED <<max_retries, constraints, type_hierarchy, iteration,
                   error_report, is_valid, outcome, ncalls>>

\* lines 137-150, the model answering with one of answers
RefineWith(t, answers) ==
    /\ pc[t] = "generate"
    /\ iteration[t] # 1
    /\ \E r \in answers :
          LET got == RefinerAgent_refine(solver_output_raw[t], error_report[t], r)
              refiner_log == [got.log_entry EXCEPT !.iteration = iteration[t]]
          IN  /\ solver_output' = [solver_output EXCEPT ![t] = got.parsed]
              /\ solver_output_raw' = [solver_output_raw EXCEPT ![t] = got.raw_output]
              /\ conversation_logs' = Append(conversation_logs, refiner_log)
              /\ invocations' = [invocations EXCEPT ![t] = Append(@, refiner_log)]
    /\ pc' = [pc EXCEPT ![t] = "verify"]
    /\ UNCHANGED <<max_retries, constraints, type_hierarchy, iteration,
                   error_report, is_valid, outcome, ncalls>>

Refine(t) == RefineWith(t, LLMAnswers)

\* verify clearing the candidate it was given when it fails, the dict being
\* shared with the caller
Verify_ClearsCandidate(t) ==
    /\ pc[t] = "verify"
    /\ \E tc \in [TypeCheckIndexes(solver_output[t], type_hierarchy[t]) -> TypeCheckAnswers] :
          LET v == verify(solver_output[t], solver_output_raw[t], constraints[t],
                          type_hierarchy[t], tc)
              verifier_logs == Tagged(v.logs, iteration[t])
          IN  /\ is_valid' = [is_valid EXCEPT ![t] = v.is_valid]
              /\ error_report' = [error_report EXCEPT ![t] =
                                    IF v.raised THEN @ ELSE v.error_report]
              /\ conversation_logs' =
                    IF v.raised THEN conversation_logs
                    ELSE conversation_logs \o verifier_logs
              /\ invocations' = [invocations EXCEPT ![t] = @ \o verifier_logs]
              /\ solver_output' = [solver_output EXCEPT ![t] =
                                    IF v.is_valid THEN @ ELSE EmptyDict]
              /\ pc' = [pc EXCEPT ![t] = IF v.raised THEN "raised" ELSE "verified"]
    /\ UNCHANGED <<max_retries, constraints, type_hierarchy, iteration,
                   solver_output_raw, outcome, ncalls>>

\* lines 153-162; an exception of verify leaves solve (there is no handler)
Verify(t) ==
    /\ pc[t] = "verify"
    /\ \E tc \in [TypeCheckIndexes(solver_output[t], type_hierarchy[t]) -> TypeCheckAnswers] :
          LET v == verify(solver_output[t], solver_output_raw[t], constraints[t],
                          type_hierarchy[t], tc)
              verifier_logs == Tagged(v.logs, iteration[t])
          IN  /\ is_valid' = [is_valid EXCEPT ![t] = v.is_valid]
              /\ error_report' = [error_report EXCEPT ![t] =
                                    IF v.raised THEN @ ELSE v.error_report]
              /\ conversation_logs' =
                    IF v.raised THEN conversation_logs
                    ELSE conversation_logs \o verifier_logs
              /\ invocations' = [invocations EXCEPT ![t] = @ \o verifier_logs]
              /\ pc' = [pc EXCEPT ![t] = IF v.raised THEN "raised" ELSE "verified"]
    /\ UNCHANGED <<max_retries, constraints, type_hierarchy, iteration,
                   solver_output, solver_output_raw, outcome, ncalls>>

\* the return of line 170 left out: the loop goes on after a valid candidate
ReturnValid_NoReturn(t) ==
    /\ pc[t] = "verified"
    /\ is_valid[t]
    /\ pc' = [pc EXCEPT ![t] = "while"]
    /\ UNCHANGED <<max_retries, conversation_logs, constraints, type_hierarchy,
                   iteration, solver_output, solver_output_raw, error_report,
                   is_valid, outcome, invocations, ncalls>>

\* the keys set on the candidate itself, line 166 without .copy()
ReturnValid_InPlace(t) ==
    /\ pc[t] = "verified"
    /\ is_valid[t]
    /\ outcome' = [outcome EXCEPT ![t] =
          Outcome(solver_output[t],
                  IF solver_output[t].ownRaw THEN OwnRaw
                  ELSE RawText(solver_output_raw[t]),
                  FALSE, NoError, iteration[t])]
    /\ solver_output' = [solver_output EXCEPT ![t] =
          [@ EXCEPT !.ownRaw = TRUE, !.ownIterations = TRUE]]
    /\ pc' = [pc EXCEPT ![t] = "returned"]
    /\ UNCHANGED <<max_retries, conversation_logs, constraints, type_hierarchy,
                   iteration, solver_output_raw, error_report,
                   is_valid, invocations, ncalls>>

\* lines 164-170
ReturnValid(t) ==
    /\ pc[t] = "verified"
    /\ is_valid[t]
    /\ outcome' = [outcome EXCEPT ![t] =
          Outcome(solver_output[t],
                  IF solver_output[t].ownRaw THEN OwnRaw
                  ELSE RawText(solver_output_raw[t]),
                  FALSE, NoError, iteration[t])]
    /\ pc' = [pc EXCEPT ![t] = "returned"]
    /\ UNCHANGED <<max_retries, conversation_logs, constraints, type_hierarchy,
                   iteration, solver_output, solver_output_raw, error_report,
                   is_valid, invocations, ncalls>>

\* the exhaustion outcome built like the fallback of lines 183-187, without
\* the verification_error key
ReturnExhausted_NoError(t) ==
    /\ pc[t] = "verified"
    /\ ~is_valid[t]
    /\ iteration[t] >= max_retries
    /\ outcome' = [outcome EXCEPT ![t] =
          Outcome(Result("UNKNOWN"), RawText(solver_output_raw[t]), FALSE, NoError,
                  iteration[t])]
    /\ pc' = [pc EXCEPT ![t] = "returned"]
    /\ UNCHANGED <<max_retries, conversation_logs, constraints, type_hierarchy,
                   iteration, solver_output, solver_output_raw, error_report,
                   is_valid, invocations, ncalls>>

\* lines 173-180
ReturnExhausted(t) ==
    /\ pc[t] = "verified"
    /\ ~is_valid[t]
    /\ iteration[t] >= max_retries
    /\ outcome' = [outcome EXCEPT ![t] =
          Outcome(Result("UNKNOWN"), RawText(solver_output_raw[t]), TRUE,
                  error_report[t], iteration[t])]
    /\ pc' = [pc EXCEPT ![t] = "returned"]
    /\ UNCHANGED <<max_retries, conversation_logs, constraints, type_hierarchy,
                   iteration, solver_output, solver_output_raw, error_report,
                   is_valid, invocations, ncalls>>

\* a retry after every invalid candidate, whatever the budget
Retry_Always(t) ==
    /\ pc[t] = "verified"
    /\ ~is_valid[t]
    /\ iteration[t] <= max_retries + 1
    /\ iteration' = [iteration EXCEPT ![t] = @ + 1]
    /\ pc' = [pc EXCEPT ![t] = "generate"]
    /\ UNCHANGED <<max_retries, conversation_logs, constraints, type_hierarchy,
                   solver_output, solver_output_raw, error_report, is_valid,
                   outcome, invocations, ncalls>>

\* line 173 fails: back to line 122
Retry(t) ==
    /\ pc[t] = "verified"
    /\ ~is_valid[t]
    /\ ~(iteration[t] >= max_retries)
    /\ pc' = [pc EXCEPT ![t] = "while"]
    /\ UNCHANGED <<max_retries, conversation_logs, constraints, type_hierarchy,
                   iteration, solver_output, solver_output_raw, error_report,
                   is_valid, outcome, invocations, ncalls>>

Step(t) ==
    \/ Call(t)
    \/ WhileEnter(t)
    \/ WhileExit(t)
    \/ Solve(t)
    \/ Refine(t)
    \/ Verify(t)
    \/ ReturnValid(t)
    \/ ReturnExhausted(t)
    \/ Retry(t)

\* one thread calls solve, one call after the other
Next == Step(MainThread)

Spec == Init /\ [][Next]_vars

\* the answers of the model when two threads call solve: the example
\* answer and a text without JSON
ConcurrentAnswers ==
    {Returns(<<Fence, JsonTok(Sat(ExampleValuation)), Fence>>),
     Returns(<<Prose, Brace>>)}

ConcurrentCall(t) == CallWith(t, {ExampleConstraints}, {{}})

ConcurrentSolve(t) == SolveWith(t, ConcurrentAnswers)

ConcurrentRefine(t) == RefineWith(t, ConcurrentAnswers)

\* a step of one of the threads that call solve on the same orchestrator
NextConcurrent ==
    \E t \in Threads :
        \/ ConcurrentCall(t)
        \/ WhileEnter(t)
        \/ WhileExit(t)
        \/ ConcurrentSolve(t)
        \/ ConcurrentRefine(t)
        \/ Verify(t)
        \/ ReturnValid(t)
        \/ ReturnExhausted(t)
        \/ Retry(t)

\* two threads call solve on one orchestrator, their steps interleaved
SpecConcurrent == Init /\ [][NextConcurrent]_vars

(***************************************************************************)
(* verify on its own: the Solver has answered at iteration 1 with a text   *)
(* that holds any candidate of a bounded set                               *)
(***************************************************************************)
Node3 == Str(<<Seg("Node", "", "3", FALSE)>>)

VerifyVariables ==
    {Str(head_ref), Str(head_next_ref), obj_1, Node3, Str(<<Plain("x")>>)}

\* the keys an entry has besides variable
EntryShapes ==
    { [type |-> "<absent>", newObject |-> FALSE, trueRef |-> FALSE, reference |-> "<absent>"],
      [type |-> "null", newObject |-> TRUE, trueRef |-> TRUE, reference |-> "null"],
      [type |-> "null", newObject |-> TRUE, trueRef |-> TRUE, reference |-> "1"],
      [type |-> "LNode;", newObject |-> TRUE, trueRef |-> TRUE, reference |-> "1"],
      [type |-> "LNode;", newObject |-> TRUE, trueRef |-> TRUE, reference |-> "null"],
      [type |-> "LNode;", newObject |-> FALSE, trueRef |-> TRUE, reference |-> "<absent>"] }

VerifyEntries ==
    {Entry(TRUE, v, sh.type, sh.newObject, sh.trueRef, sh.reference) :
        v \in VerifyVariables, sh \in EntryShapes}
    \cup {PrimEntry(Absent), PrimEntry(NonStr("num")), PrimEntry(NonStr("list")), NotADict}

VerifyValuations == UNION {[1..n -> VerifyEntries] : n \in 0..MaxEntries}

\* the candidates: no JSON, arrays, and objects with any result; those whose
\* result is not SAT carry at most one entry
VerifyCandidates ==
    {None, List({}), List({"result"}), EmptyDict}
    \cup {[Result(r) EXCEPT !.valKind = k] :
            r \in {"SAT", "UNSAT", "UNKNOWN", "MAYBE"}, k \in {"absent", "other"}}
    \cup {Sat(v) : v \in VerifyValuations}
    \cup {[Sat(v) EXCEPT !.result = r] :
            r \in {"<absent>", "UNSAT", "UNKNOWN", "MAYBE"},
            v \in {w \in VerifyValuations : Len(w) <= 1}}

\* ["head(ref) != null"]
HeadConstraints == << <<head_ref, <<Plain("null")>> >> >>

VerifyConstraintLists == {ExampleConstraints, HeadConstraints}

VerifyTypeHierarchies == {{}, {Str(head_ref)}}

\* the text that holds candidate c
TextOf(c) == IF c = None THEN <<Prose, Brace>> ELSE <<JsonTok(c)>>

\* the state after lines 117-136 when the Solver has answered with a text
\* that holds one of the candidates
InitVerify ==
    \E c \in VerifyCandidates, cs \in VerifyConstraintLists,
       th \in VerifyTypeHierarchies :
        LET got == SolverAgent_solve(Returns(TextOf(c)))
            solver_log == [got.log_entry EXCEPT !.iteration = 1]
        IN  /\ max_retries = MaxMaxRetries
            /\ conversation_logs = <<solver_log>>
            /\ pc = [t \in Threads |-> IF t = MainThread THEN "verify" ELSE "idle"]
            /\ constraints = [t \in Threads |-> IF t = MainThread THEN cs ELSE <<>>]
            /\ type_hierarchy = [t \in Threads |-> IF t = MainThread THEN th ELSE {}]
            /\ iteration = [t \in Threads |-> IF t = MainThread THEN 1 ELSE 0]
            /\ solver_output =
                  [t \in Threads |-> IF t = MainThread THEN got.parsed ELSE None]
            /\ solver_output_raw =
                  [t \in Threads |-> IF t = MainThread THEN got.raw_output ELSE <<>>]
            /\ error_report = [t \in Threads |-> NoError]
            /\ is_valid = [t \in Threads |-> FALSE]
            /\ outcome = [t \in Threads |-> NoOutcome]
            /\ invocations =
                  [t \in Threads |-> IF t = MainThread THEN <<solver_log>> ELSE <<>>]
            /\ ncalls = [t \in Threads |-> IF t = MainThread THEN 1 ELSE 0]

\* the candidate is verified, and returned if it is valid
NextVerify == Verify(MainThread) \/ ReturnValid(MainThread)

SpecVerify == InitVerify /\ [][NextVerify]_vars

(***************************************************************************)
(* extract_first_json on its own: the Solver answers with any text of a    *)
(* bounded length and solver_agent.py:229 extracts from it                 *)
(***************************************************************************)
\* {"result": "UNKNOWN", "raw": "..."}, whose explanation may hold any text
UnknownWithRaw == [Result("UNKNOWN") EXCEPT !.ownRaw = TRUE]

ExtractTokens ==
    {Fence, Prose, Brace, JsonTok(List({})), JsonTok(Result("UNSAT")),
     OpenTok(UnknownWithRaw), Close}

ExtractTexts == UNION {[1..n -> ExtractTokens] : n \in 0..MaxTextLen}

ExtractAnswers == {Returns(text) : text \in ExtractTexts}

ExtractSolve(t) == SolveWith(t, ExtractAnswers)

InitExtract == Init /\ max_retries = 0

NextExtract ==
    \/ ConcurrentCall(MainThread)
    \/ WhileEnter(MainThread)
    \/ ExtractSolve(MainThread)

SpecExtract == InitExtract /\ [][NextExtract]_vars

(***************************************************************************)
(* app.py: the POST /solve endpoint, which asks the model once and parses  *)
(* its answer itself (it uses none of the agents)                          *)
(***************************************************************************)
\* the token holds a '{'; Brace stands for "{x}"
HasOpenBrace(tok) ==
    \/ tok.k \in {"brace", "open"}
    \/ tok.k = "json" /\ tok.json.top = "dict"

\* the token holds a '}'
HasCloseBrace(tok) ==
    \/ tok.k \in {"brace", "close"}
    \/ tok.k = "json" /\ tok.json.top = "dict"

\* re.search(r"\{.*\}", text, re.DOTALL), line 242: from the first '{' to
\* the last '}' after it; <<>> when there is no match
re_search(text) ==
    LET opens == {i \in 1..Len(text) : HasOpenBrace(text[i])}
        first == CHOOSE i \in opens : \A x \in opens : i <= x
        closes == {j \in 1..Len(text) : HasCloseBrace(text[j]) /\ j >= first}
        last == CHOOSE j \in closes : \A x \in closes : j >= x
    IN  IF opens = {} THEN <<>>
        ELSE IF closes = {} THEN <<>>
        ELSE SubSeq(text, first, last)

\* json.loads(json_str), line 246: the value when json_str is the text of
\* one JSON value and nothing else, None when it raises
json_loads(json_str) ==
    LET d == raw_decode(json_str, 1)
    IN  IF d.ok /\ d.end = Len(json_str) THEN d.obj ELSE None

\* a response body: the keys of json, with "raw" set to the text when raw
\* is not OwnRaw, and the key "error" or "parse_error" when error names it
EndpointResponse(json, raw, error) == [json |-> json, raw |-> raw, error |-> error]

\* lines 198-270 for the answer r of llm.invoke; key is whether
\* OPENAI_API_KEY is set
endpoint_solve(key, r) ==
    LET text == r.content
        json_str == re_search(text)
        parsed == json_loads(json_str)
        \* lines 249-251: a valuation that is no array becomes an array of it
        wrapped == IF parsed.valKind = "other"
                   THEN [parsed EXCEPT !.valKind = "list", !.valuation = <<NotADict>>]
                   ELSE parsed
    IN  IF ~key THEN EndpointResponse(Result("UNKNOWN"), OwnRaw, "error")
        ELSE IF r.raise THEN EndpointResponse(Result("UNKNOWN"), OwnRaw, "error")
        ELSE IF json_str = <<>>
        THEN EndpointResponse(Result("UNKNOWN"), RawText(text), "")
        ELSE IF parsed = None
        THEN EndpointResponse(Result("UNKNOWN"), RawText(text), "parse_error")
        ELSE EndpointResponse(wrapped, OwnRaw, "")

EndpointTokens ==
    {Prose, Brace, Close, OpenTok(UnknownWithRaw),
     JsonTok(Sat(ExampleValuation)), JsonTok(Result("UNSAT")),
     JsonTok([Result("SAT") EXCEPT !.valKind = "other"]),
     JsonTok(Result("MAYBE")), JsonTok(EmptyDict), JsonTok(List({}))}

EndpointAnswers ==
    {Raises} \cup {Returns(text) :
                     text \in UNION {[1..n -> EndpointTokens] : n \in 0..MaxReplyLen}}

\* one request to POST /solve, answered; the handler keeps no state, so one
\* request per client is followed
EndpointSolve(t) ==
    /\ pc[t] = "idle"
    /\ \E cs \in ConstraintLists, r \in EndpointAnswers, key \in BOOLEAN :
          /\ constraints' = [constraints EXCEPT ![t] = cs]
          /\ solver_output_raw' = [solver_output_raw EXCEPT ![t] = r.content]
          /\ outcome' = [outcome EXCEPT ![t] = endpoint_solve(key, r)]
    /\ ncalls' = [ncalls EXCEPT ![t] = @ + 1]
    /\ pc' = [pc EXCEPT ![t] = "returned"]
    /\ UNCHANGED <<max_retries, conversation_logs, type_hierarchy, iteration,
                   solver_output, error_report, is_valid, invocations>>

NextEndpoint == EndpointSolve(MainThread)

SpecEndpoint == Init /\ [][NextEndpoint]_vars

(***************************************************************************)
(* solve called with constraints that hold dotted tokens of any shape up   *)
(* to MaxDepth segments; the Solver answers with a valuation of one plain  *)
(* name or with the valuation of the example                               *)
(***************************************************************************)
AnalyzeSegments == {Ref("head"), Ref("next"), Plain("head"), Plain("val")}

AnalyzeTokens == UNION {[1..n -> AnalyzeSegments] : n \in 1..MaxDepth}

\* no constraint; one constraint "token != null"; or that constraint and
\* a second one that compares a token of at most two segments
AnalyzeConstraintLists ==
    {<<>>}
    \cup {<< <<tok, <<Plain("null")>> >> >> : tok \in AnalyzeTokens}
    \cup {<< <<tok, <<Plain("null")>> >>, <<tok2>> >> :
            tok \in AnalyzeTokens, tok2 \in {head_ref, head_next_ref, <<Plain("val")>>}}

AnalyzeAnswers ==
    {Returns(<<JsonTok(Sat(<<PrimEntry(Str(<<Plain("x")>>))>>))>>),
     Returns(<<JsonTok(Sat(ExampleValuation))>>)}

AnalyzeCall(t) == CallWith(t, AnalyzeConstraintLists, {{}})

AnalyzeSolve(t) == SolveWith(t, AnalyzeAnswers)

InitAnalyze == Init /\ max_retries = 0

NextAnalyze ==
    \/ AnalyzeCall(MainThread)
    \/ WhileEnter(MainThread)
    \/ AnalyzeSolve(MainThread)
    \/ Verify(MainThread)
    \/ ReturnValid(MainThread)
    \/ ReturnExhausted(MainThread)

SpecAnalyze == InitAnalyze /\ [][NextAnalyze]_vars

\* the steps of a solve call that is under way
Running(t) ==
    \/ WhileEnter(t)
    \/ WhileExit(t)
    \/ Solve(t)
    \/ Refine(t)
    \/ Verify(t)
    \/ ReturnValid(t)
    \/ ReturnExhausted(t)
    \/ Retry(t)

\* every llm.invoke returns or raises, and the thread in solve keeps running
SpecFair == Init /\ [][Next]_vars /\ WF_vars(Running(MainThread))

(***************************************************************************)
(* Properties                                                              *)
(***************************************************************************)
\* the number of llm.invoke calls a thread's solve call made for an agent
AgentCalls(t, agent) ==
    Cardinality({i \in 1..Len(invocations[t]) : invocations[t][i].agent = agent})

\* the solve call of t has ended
Ended(t) == pc[t] \in {"returned", "raised"}

\* the latest Solver or Refiner call of t
LastGeneration(t) ==
    LET G == {i \in 1..Len(invocations[t]) : invocations[t][i].agent # "verifier"}
    IN  invocations[t][CHOOSE i \in G : \A j \in G : j <= i]

\* C1: with max_retries = N >= 0 and candidates that all fail validation,
\* solve makes exactly N + 1 generation attempts (1 Solver call, then N
\* Refiner calls) and returns UNKNOWN with iterations = N + 1.
C1_RetryBound ==
    \A t \in Threads :
        (pc[t] = "returned" /\ max_retries >= 0 /\ ~is_valid[t]) =>
            /\ AgentCalls(t, "solver") = 1
            /\ AgentCalls(t, "refiner") = max_retries
            /\ outcome[t].json.result = "UNKNOWN"
            /\ outcome[t].iterations = max_retries + 1

\* C2: when the candidate of iteration 1 (the Solver's) is valid, the next
\* step of solve returns with iterations = 1, and no Refiner call was made
\* in that solve call.
C2_SuccessShortCircuit ==
    [][\A t \in Threads :
          (pc[t] = "verified" /\ iteration[t] = 1 /\ is_valid[t] /\ pc'[t] # pc[t]) =>
              /\ pc'[t] = "returned"
              /\ outcome'[t].iterations = 1
              /\ AgentCalls(t, "refiner")' = 0]_vars

C2_Witness ==
    /\ pc[MainThread] = "returned"
    /\ is_valid[MainThread]
    /\ outcome[MainThread].iterations = 1
    /\ max_retries >= 1

\* C3: solve never propagates an exception to its caller, whatever JSON
\* value the oracles produce.
C3_NeverRaises == \A t \in Threads : pc[t] # "raised"

\* C4: every outcome solve returns is a dict whose result is SAT, UNSAT or
\* UNKNOWN.
C4_ResultDomain ==
    \A t \in Threads :
        pc[t] = "returned" =>
            /\ outcome[t].json.top = "dict"
            /\ outcome[t].json.result \in {"SAT", "UNSAT", "UNKNOWN"}

C4_Witness ==
    /\ pc[MainThread] = "returned"
    /\ outcome[MainThread].json.result = "UNSAT"
    /\ outcome[MainThread].iterations = 2

\* C5: an outcome with result SAT carries a valuation that is a non-empty
\* list, and the variables of its entries include every base variable of
\* the constraints (for the example constraints: head(ref) and
\* head(ref).next(ref)).
C5_SatValuation ==
    \A t \in Threads :
        (pc[t] = "returned" /\ outcome[t].json.result = "SAT") =>
            LET valuation == outcome[t].json.valuation
                assigned == {valuation[i].variable : i \in 1..Len(valuation)}
            IN  /\ outcome[t].json.valKind = "list"
                /\ Len(valuation) > 0
                /\ _extract_base_variables_from_constraints(constraints[t]) \subseteq assigned
                /\ constraints[t] = ExampleConstraints =>
                      {Str(head_ref), Str(head_next_ref)} \subseteq assigned

C5_Witness ==
    /\ pc[MainThread] = "returned"
    /\ outcome[MainThread].json.result = "SAT"
    /\ constraints[MainThread] = ExampleConstraints
    /\ Len(outcome[MainThread].json.valuation) = 2

SolverFirstAndOnly(t) ==
    /\ invocations[t] # <<>> => invocations[t][1].agent = "solver"
    /\ \A i \in 2..Len(invocations[t]) : invocations[t][i].agent # "solver"
    /\ Ended(t) => AgentCalls(t, "solver") = 1

\* C7: in every solve call, for every max_retries, the Solver is invoked
\* exactly once, as the first oracle call, and every later generation
\* attempt is a Refiner call.
C7_SolverOnce == \A t \in Threads : SolverFirstAndOnly(t)

\* C8: when the Solver's first candidate fails validation and
\* max_retries >= 1, solve invokes the Refiner at least once before it
\* returns.
C8_RefinerAfterFailure ==
    \A t \in Threads :
        (/\ pc[t] = "returned"
         /\ max_retries >= 1
         /\ ~(iteration[t] = 1 /\ is_valid[t])) =>
            AgentCalls(t, "refiner") >= 1

\* C9: for max_retries >= 0 a solve call makes at most max_retries Refiner
\* calls.
C9_RefinerBound ==
    \A t \in Threads :
        max_retries >= 0 => AgentCalls(t, "refiner") <= max_retries

C9_Witness ==
    /\ pc[MainThread] = "returned"
    /\ max_retries = MaxMaxRetries
    /\ AgentCalls(MainThread, "refiner") = max_retries - 1
    /\ AgentCalls(MainThread, "refiner") >= 1

\* the latest Solver or Refiner call of t raised in llm.invoke
GenerationRaised(t) ==
    /\ pc[t] \in {"verify", "verified"}
    /\ LastGeneration(t).error

C11_IterationsCount ==
    \A t \in Threads :
        pc[t] = "returned" =>
            /\ outcome[t].iterations >= 1
            /\ outcome[t].iterations =
                  AgentCalls(t, "solver") + AgentCalls(t, "refiner")

\* C12: when the candidate of iteration i is valid, solve returns the fields
\* of the candidate with iterations = i and with raw = the candidate's own
\* raw if it has one, else the raw text of the latest Solver or Refiner
\* call; the candidate itself is left as it was.
C12_ValidOutcome ==
    [][\A t \in Threads :
          (pc[t] = "verified" /\ is_valid[t] /\ pc'[t] # pc[t]) =>
              /\ pc'[t] = "returned"
              /\ outcome'[t].json = solver_output[t]
              /\ outcome'[t].iterations = iteration[t]
              /\ ~outcome'[t].has_verification_error
              /\ outcome'[t].raw =
                    IF solver_output[t].ownRaw THEN OwnRaw
                    ELSE RawText(LastGeneration(t).response)
              /\ solver_output'[t] = solver_output[t]]_vars

C12_Witness ==
    /\ pc[MainThread] = "returned"
    /\ is_valid[MainThread]
    /\ outcome[MainThread].iterations = 2
    /\ outcome[MainThread].raw = OwnRaw
    /\ outcome[MainThread].json.ownIterations

\* C14: when every oracle call returns or raises, every solve call
\* eventually returns an outcome, for every integer max_retries and all
\* oracle answers, and its loop runs at most max(1, max_retries + 1) times.
C14_Termination ==
    /\ [](\A t \in Threads :
            iteration[t] <= (IF max_retries + 1 > 1 THEN max_retries + 1 ELSE 1))
    /\ \A k \in 1..MaxCalls :
          (pc[MainThread] = "while" /\ ncalls[MainThread] = k)
              ~> (pc[MainThread] = "returned" /\ ncalls[MainThread] = k)

\* C13: solve calls that run concurrently on one orchestrator share no
\* mutable state: when a call returns, the log list holds exactly the
\* entries that call produced, and a step of one call leaves the iteration
\* counter, raw text and error report of the other as they were.
C13_Isolation ==
    [][\A t \in Threads :
          /\ (pc[t] # "returned" /\ pc'[t] = "returned") =>
                conversation_logs' = invocations'[t]
          /\ pc'[t] = pc[t] =>
                /\ iteration'[t] = iteration[t]
                /\ solver_output_raw'[t] = solver_output_raw[t]
                /\ error_report'[t] = error_report[t]]_vars

(***************************************************************************)
(* Properties of verify, for the candidates of SpecVerify                  *)
(***************************************************************************)
\* verify has been run on the candidate of t
AfterVerify(t) == pc[t] \in {"verified", "returned", "raised"}

\* the candidate of t is an object with result "SAT" whose valuation is a
\* non-empty array
SatList(t) ==
    /\ solver_output[t].top = "dict"
    /\ solver_output[t].result = "SAT"
    /\ solver_output[t].valKind = "list"
    /\ Len(solver_output[t].valuation) > 0

\* the indexes of the entries of the candidate of t that are objects
DictEntries(t) ==
    {i \in 1..Len(solver_output[t].valuation) : solver_output[t].valuation[i].isDict}

\* the base variables of the constraints of t that no entry has as variable
MissingBase(t) ==
    _extract_base_variables_from_constraints(constraints[t])
        \ {solver_output[t].valuation[i].variable : i \in DictEntries(t)}

\* C15: a candidate whose result is UNSAT or UNKNOWN is accepted with an
\* empty error report whatever else it carries, no type-compatibility call
\* is made for it, and solve returns it at iteration 1.
C15_NonSatAccepted ==
    /\ [](\A t \in Threads :
            (/\ solver_output[t].top = "dict"
             /\ solver_output[t].result \in {"UNSAT", "UNKNOWN"}
             /\ AfterVerify(t)) =>
                /\ pc[t] # "raised"
                /\ is_valid[t]
                /\ error_report[t] = NoError
                /\ AgentCalls(t, "verifier") = 0
                /\ AgentCalls(t, "refiner") = 0)
    /\ [][\A t \in Threads :
            (/\ solver_output[t].top = "dict"
             /\ solver_output[t].result \in {"UNSAT", "UNKNOWN"}
             /\ pc[t] = "verified"
             /\ pc'[t] # pc[t]) =>
                /\ pc'[t] = "returned"
                /\ outcome'[t].json = solver_output[t]
                /\ outcome'[t].iterations = 1
                /\ ~outcome'[t].has_verification_error]_vars

\* an UNKNOWN candidate that carries an entry with an invented name has been
\* returned at iteration 1
C15_Witness ==
    /\ pc[MainThread] = "returned"
    /\ outcome[MainThread].json.result = "UNKNOWN"
    /\ outcome[MainThread].iterations = 1
    /\ Len(solver_output[MainThread].valuation) = 1
    /\ solver_output[MainThread].valuation[1].variable = obj_1
    /\ type_hierarchy[MainThread] # {}

\* C16: for a SAT candidate with a non-empty valuation array, if a base
\* variable of the constraints is the variable of no entry, validation
\* fails and the error report lists exactly the missing base variables.
C16_Exhaustiveness ==
    \A t \in Threads :
        (SatList(t) /\ MissingBase(t) # {} /\ AfterVerify(t)) =>
            /\ pc[t] = "verified"
            /\ ~is_valid[t]
            /\ error_report[t].code = "missing_vars"
            /\ error_report[t].vars = MissingBase(t)

\* the invented names of the candidates
Placeholders == {obj_1, Node3}

\* the candidate of t has an entry whose variable is an invented name that
\* the constraints, which are not empty, do not mention
HasPlaceholder(t) ==
    /\ constraints[t] # <<>>
    /\ \E i \in DictEntries(t) :
          /\ solver_output[t].valuation[i].variable \in Placeholders
          /\ solver_output[t].valuation[i].variable \notin
                _extract_base_variables_from_constraints(constraints[t])

\* C17 as stated: a candidate that has an entry whose variable is an
\* invented placeholder name is never accepted as valid.
C17_PlaceholderNeverAccepted ==
    \A t \in Threads :
        (solver_output[t].top = "dict" /\ HasPlaceholder(t) /\ AfterVerify(t)) =>
            ~is_valid[t] /\ pc[t] # "returned"

\* C17, amended: a candidate with result SAT whose valuation array has an
\* entry whose variable is an invented placeholder name is never accepted
\* as valid, whatever its other entries and fields are.
C17_SatPlaceholderNeverAccepted ==
    \A t \in Threads :
        (SatList(t) /\ HasPlaceholder(t) /\ AfterVerify(t)) =>
            ~is_valid[t] /\ pc[t] # "returned"

\* a SAT candidate whose second entry is named Node3 has failed validation
\* on that name, its first entry being complete
C17_Witness ==
    /\ pc[MainThread] = "verified"
    /\ SatList(MainThread)
    /\ ~is_valid[MainThread]
    /\ error_report[MainThread].code = "invalid_name"
    /\ error_report[MainThread].idx = 1
    /\ error_report[MainThread].vars = {Node3}
    /\ solver_output[MainThread].valuation[1] = RefEntry(head_ref, "LNode;", "1")

\* the keys among newObject, trueRef, reference that entry e does not have
AbsentKeys(e) ==
    (IF e.newObject THEN {} ELSE {"newObject"})
    \cup (IF e.trueRef THEN {} ELSE {"trueRef"})
    \cup (IF e.reference = "<absent>" THEN {"reference"} ELSE {})

\* the indexes of the entries of the candidate of t that have a type other
\* than "null" and lack one of the three keys
Incomplete(t) ==
    {i \in DictEntries(t) :
        /\ solver_output[t].valuation[i].type \notin {"<absent>", "null"}
        /\ AbsentKeys(solver_output[t].valuation[i]) # {}}

FirstIncomplete(t) == CHOOSE i \in Incomplete(t) : \A j \in Incomplete(t) : i <= j

Conflicting(t) ==
    LET valuation == solver_output[t].valuation
    IN  {v \in {valuation[i].variable : i \in DictEntries(t)} :
            \E i, j \in DictEntries(t) :
                /\ i # j
                /\ valuation[i].variable = v
                /\ valuation[i].type = "null"
                /\ valuation[j].variable = v
                /\ valuation[j].type # "null"
                /\ valuation[j].reference \notin {"<absent>", "null"}}

\* the error reports of the checks that come before the consistency check
EarlierCodes ==
    {"missing_vars", "entry_not_dict", "entry_missing_variable", "invalid_name",
     "missing_fields", "type_incompat"}

\* C19: in a SAT candidate that passes all earlier checks, a variable with
\* an entry of type "null" and another entry with a type other than "null"
\* and a non-null reference makes validation fail with a conflict error
\* that names it; the error names only such variables, so an entry of type
\* "null" that has a reference does not conflict with itself.
C19_NullConflict ==
    \A t \in Threads :
        (SatList(t) /\ pc[t] \in {"verified", "returned"}) =>
            /\ (Conflicting(t) # {} /\ error_report[t].code \notin EarlierCodes) =>
                  /\ ~is_valid[t]
                  /\ pc[t] = "verified"
                  /\ error_report[t].code = "conflict"
                  /\ Conflicting(t) \subseteq error_report[t].vars
            /\ error_report[t].code = "conflict" =>
                  error_report[t].vars = Conflicting(t)

\* head(ref) has an entry of type "null" and an entry of type LNode; with
\* reference 1: the conflict error names head(ref)
C19_Witness ==
    /\ pc[MainThread] = "verified"
    /\ ~is_valid[MainThread]
    /\ error_report[MainThread].code = "conflict"
    /\ error_report[MainThread].vars = {Str(head_ref)}
    /\ \E i \in {1, 2} :
          /\ solver_output[MainThread].valuation[i] = RefEntry(head_ref, "null", "1")
          /\ solver_output[MainThread].valuation[3 - i] = RefEntry(head_ref, "LNode;", "1")

\* the log entry of a type check whose oracle call raised, or answered a
\* text that holds no JSON object with a "compatible" key
Degraded(entry) ==
    /\ entry.agent = "verifier"
    /\ \/ entry.error
       \/ LET parsed == extract_first_json(entry.response)[1]
          IN  ~(parsed.top = "dict" /\ parsed.compatible # "<absent>")

\* the log entries of the type checks of t
TypeCheckLog(t) ==
    {i \in 1..Len(invocations[t]) : invocations[t][i].agent = "verifier"}

\* C20: when every type check of a validation is degraded, the validation
\* ends as it does without a type hierarchy: a candidate that passes all
\* other checks is accepted, and each entry the oracle is asked about
\* leaves one log entry.
C20_FailOpen ==
    \A t \in Threads :
        (/\ pc[t] \in {"verified", "returned"}
         /\ \A i \in TypeCheckLog(t) : Degraded(invocations[t][i])) =>
            LET alone == verify(solver_output[t], solver_output_raw[t],
                                constraints[t], {}, <<>>)
            IN  /\ is_valid[t] = alone.is_valid
                /\ error_report[t] = alone.error_report
                /\ is_valid[t] /\ SatList(t) =>
                      Cardinality(TypeCheckLog(t)) =
                        Cardinality(TypeCheckIndexes(solver_output[t], type_hierarchy[t]))
                /\ \A i \in TypeCheckLog(t) :
                      /\ invocations[t][i].stage = "type_check"
                      /\ invocations[t][i].iteration = iteration[t]
                      /\ invocations[t][i] \in {conversation_logs[k] :
                                                  k \in 1..Len(conversation_logs)}

\* a SAT candidate with two entries for head(ref) has been accepted after
\* one type check raised and the other answered prose
C20_Witness ==
    /\ pc[MainThread] = "verified"
    /\ is_valid[MainThread]
    /\ SatList(MainThread)
    /\ Cardinality(TypeCheckLog(MainThread)) = 2
    /\ \E i, j \in TypeCheckLog(MainThread) :
          /\ invocations[MainThread][i].error
          /\ ~invocations[MainThread][j].error
          /\ invocations[MainThread][j].response = <<Prose>>

\* the log entry holds an answer that parses to an object whose
\* "compatible" is false
Incompatible(entry) ==
    /\ entry.agent = "verifier"
    /\ ~entry.error
    /\ LET parsed == extract_first_json(entry.response)[1]
       IN  parsed.top = "dict" /\ parsed.compatible = "false"

\* C21: when the oracle answers a type check with a verdict whose
\* compatible is false, validation fails with a report that holds the
\* oracle's reason and the variable asked about, and the exchange is the
\* last entry of the log, after the exchanges of the earlier type checks.
C21_IncompatibleFails ==
    \A t \in Threads :
        (AfterVerify(t) /\ \E i \in TypeCheckLog(t) : Incompatible(invocations[t][i])) =>
            LET last == invocations[t][Len(invocations[t])]
            IN  /\ pc[t] = "verified"
                /\ ~is_valid[t]
                /\ Incompatible(last)
                /\ \A i \in TypeCheckLog(t) :
                      Incompatible(invocations[t][i]) => i = Len(invocations[t])
                /\ error_report[t].code = "type_incompat"
                /\ error_report[t].reason = extract_first_json(last.response)[1].reason
                /\ error_report[t].vars = {last.human.var}
                /\ conversation_logs[Len(conversation_logs)] = last

\* the second type check of a candidate answered false after the first
\* answered true: the report holds the reason and the log both exchanges
C21_Witness ==
    /\ pc[MainThread] = "verified"
    /\ ~is_valid[MainThread]
    /\ error_report[MainThread].code = "type_incompat"
    /\ error_report[MainThread].reason = "unrelated class"
    /\ Cardinality(TypeCheckLog(MainThread)) = 2
    /\ Len(conversation_logs) = 3
    /\ conversation_logs[2].response = <<JsonTok(Verdict("true", "fits"))>>

(***************************************************************************)
(* Properties of extract_first_json, for the texts of SpecExtract          *)
(***************************************************************************)
\* the Solver of t has answered and its answer has been extracted from
Extracted(t) == pc[t] = "verify"

\* a JSON value starts at position i of text and its text ends in it
Decodable(text, i) ==
    \/ text[i].k = "json"
    \/ /\ text[i].k = "open"
       /\ \E j \in i + 1..Len(text) :
             /\ text[j].k = "close"
             /\ \A x \in i + 1..j - 1 : text[x] \in {Fence, Prose, Brace, JsonTok(List({}))}

\* C22: when extract_first_json finds (value, substring) in a text, it finds
\* the same value and the same substring in that substring.
C22_Idempotence ==
    \A t \in Threads :
        Extracted(t) =>
            LET found == extract_first_json(solver_output_raw[t])
            IN  /\ found[1] = solver_output[t]
                /\ found # NotFound =>
                      /\ found[2].present
                      /\ extract_first_json(found[2].text) = found

\* the value extracted is one whose text holds a lone fence and other text,
\* and it is not the whole answer
C22_Witness ==
    /\ Extracted(MainThread)
    /\ solver_output[MainThread] = UnknownWithRaw
    /\ LET found == extract_first_json(solver_output_raw[MainThread])
       IN  /\ Len(found[2].text) = 4
           /\ found[2].text[2] = Fence
           /\ found[2].text[3] = JsonTok(List({}))
           /\ Len(solver_output_raw[MainThread]) = 5

\* the fences of the text of t, and the number of fenced regions
Fences(t) == {i \in 1..Len(solver_output_raw[t]) : solver_output_raw[t][i] = Fence}

\* positions i..j are inside one fenced region: an odd number of fences is
\* before i, and no fence is in i..j
InsideRegion(t, i, j) ==
    /\ Cardinality({f \in Fences(t) : f < i}) % 2 = 1
    /\ \A f \in Fences(t) : f < i \/ f > j
    /\ \E f \in Fences(t) : f > j

\* C23: when the text has a fenced region, the value returned is one whose
\* text is inside a fenced region, and nothing is returned when no value
\* decodes inside a region; when the text has no fenced region the whole
\* text is scanned.
C23_FencePreference ==
    \A t \in Threads :
        Extracted(t) =>
            LET text == solver_output_raw[t]
                found == extract_first_json(text)
                inside == {i \in 1..Len(text) :
                             /\ text[i].k \in {"json", "open"}
                             /\ \E j \in i..Len(text) :
                                   /\ InsideRegion(t, i, j)
                                   /\ Decodable(SubSeq(text, i, j), 1)}
            IN  IF Cardinality(Fences(t)) >= 2
                THEN /\ (inside = {}) = (found = NotFound)
                     /\ found # NotFound =>
                           \E i \in inside :
                              /\ found[1] = text[i].json
                              /\ InsideRegion(t, i, i + Len(found[2].text) - 1)
                              /\ found[2].text =
                                    SubSeq(text, i, i + Len(found[2].text) - 1)
                ELSE (found = NotFound) = (\A i \in 1..Len(text) : ~Decodable(text, i))

\* a text with a value before its fences, one between them and one after
\* them: the one between them is extracted
C23_Witness ==
    /\ Extracted(MainThread)
    /\ solver_output_raw[MainThread] =
          <<JsonTok(Result("UNSAT")), Fence, JsonTok(List({})), Fence,
            JsonTok(Result("UNSAT"))>>
    /\ solver_output[MainThread] = List({})

\* C24: the value returned is the one that decodes at the first position,
\* regions in document order and positions left to right, at which a value
\* decodes: a '{' or '[' that fails to decode and a region that holds no
\* value do not end the scan.
C24_FirstDecodable ==
    \A t \in Threads :
        Extracted(t) =>
            LET blocks == _candidate_blocks(solver_output_raw[t])
                found == extract_first_json(solver_output_raw[t])
                D == {<<b, i>> \in (1..Len(blocks)) \X (1..MaxTextLen + 1) :
                          i <= Len(blocks[b]) /\ Decodable(blocks[b], i)}
            IN  IF D = {} THEN found = NotFound
                ELSE LET first == CHOOSE d \in D : \A e \in D :
                                      d[1] < e[1] \/ (d[1] = e[1] /\ d[2] <= e[2])
                     IN  /\ found[1] = blocks[first[1]][first[2]].json
                         /\ found[2].present
                         /\ found[2].text[1] = blocks[first[1]][first[2]]
                         /\ found[2].text =
                               SubSeq(blocks[first[1]], first[2],
                                      first[2] + Len(found[2].text) - 1)

\* a region holds a '{' that does not decode and then a value, and another
\* value follows the region: the value in the region is extracted
C24_Witness ==
    /\ Extracted(MainThread)
    /\ solver_output_raw[MainThread] =
          <<Fence, Brace, JsonTok(Result("UNSAT")), Fence, JsonTok(List({}))>>
    /\ solver_output[MainThread] = Result("UNSAT")

\* C25: extract_first_json returns (None, None), or a value that is an
\* object or an array together with a substring that starts with '{' or
\* '['; never one component without the other.
C25_BothOrNeither ==
    \A t \in Threads :
        Extracted(t) =>
            LET found == extract_first_json(solver_output_raw[t])
            IN  /\ found[1] = solver_output[t]
                /\ (found[1] = None) = (~found[2].present)
                /\ found[2].present =>
                      /\ found[1].top \in {"dict", "list"}
                      /\ Len(found[2].text) > 0
                      /\ found[2].text[1].k \in {"json", "open"}
                      /\ found[2].text[1].json = found[1]

\* an array has been extracted from a text that starts with a '{' that
\* does not decode
C25_Witness ==
    /\ Extracted(MainThread)
    /\ Len(solver_output_raw[MainThread]) = 3
    /\ solver_output_raw[MainThread][1] = Brace
    /\ solver_output[MainThread] = List({})
    /\ extract_first_json(solver_output_raw[MainThread])[2] =
          Substring(<<JsonTok(List({}))>>)

(***************************************************************************)
(* Properties of solve (continued)                                         *)
(***************************************************************************)
\* the answer of the example: a fenced json block that holds the SAT
\* candidate with a complete entry for head(ref) and a "null" entry for
\* head(ref).next(ref)
ExampleAnswer == <<Fence, JsonTok(Sat(ExampleValuation)), Fence>>

\* the solve call of t is the example: its constraints, no type hierarchy,
\* and a Solver that has answered with ExampleAnswer
ExampleCall(t) ==
    /\ constraints[t] = ExampleConstraints
    /\ type_hierarchy[t] = {}
    /\ Len(invocations[t]) >= 1
    /\ invocations[t][1].agent = "solver"
    /\ invocations[t][1].response = ExampleAnswer

\* C26: in the example solve validates the Solver's candidate, calls
\* neither the Refiner nor the type-compatibility oracle, and returns
\* result SAT with iterations 1 and the valuation as given.
C26_EndToEnd ==
    /\ [](\A t \in Threads :
            ExampleCall(t) =>
                /\ pc[t] \in {"verify", "verified", "returned"}
                /\ Len(invocations[t]) = 1
                /\ pc[t] \in {"verified", "returned"} =>
                      is_valid[t] /\ error_report[t] = NoError
                /\ pc[t] = "returned" =>
                      /\ outcome[t].json.result = "SAT"
                      /\ outcome[t].json.valuation = ExampleValuation
                      /\ outcome[t].iterations = 1
                      /\ ~outcome[t].has_verification_error)
    /\ [][\A t \in Threads :
            (ExampleCall(t) /\ pc'[t] # pc[t]) =>
                \/ pc[t] = "verify" /\ pc'[t] = "verified"
                \/ pc[t] = "verified" /\ pc'[t] = "returned"
                \/ pc[t] = "returned" /\ pc'[t] = "while"]_vars

\* the example has returned, with a retry budget that was not needed
C26_Witness ==
    /\ ExampleCall(MainThread)
    /\ pc[MainThread] = "returned"
    /\ outcome[MainThread].json.valuation = ExampleValuation
    /\ max_retries = MaxMaxRetries

\* C27: every response of POST /solve has a result that is one of SAT,
\* UNSAT, UNKNOWN, whatever text the model answers with.
C27_EndpointResult ==
    \A t \in Threads :
        pc[t] = "returned" =>
            /\ outcome[t].json.top = "dict"
            /\ outcome[t].json.result \in {"SAT", "UNSAT", "UNKNOWN"}

(***************************************************************************)
(* Properties of the retry loop (continued)                                *)
(***************************************************************************)
\* the Solver and Refiner calls of t, as indexes of its log
Generations(t) ==
    {i \in 1..Len(invocations[t]) : invocations[t][i].agent # "verifier"}

\* the generation attempt before entry i of t's log
PreviousGeneration(t, i) ==
    CHOOSE j \in Generations(t) :
        j < i /\ \A k \in Generations(t) : k < i => k <= j

\* the raw text and the candidate a generation attempt handed to solve
RawOf(entry) ==
    IF ~entry.error THEN entry.response
    ELSE IF entry.agent = "solver" THEN SolverErrorText ELSE RefinerErrorText

CandidateOf(entry) ==
    IF entry.error THEN None ELSE extract_first_json(entry.response)[1]

\* err is the report of a failed validation of the attempt at index j of
\* t's log, a validation whose oracle calls are the entries j+1 .. i-1
FailedValidation(t, j, i, err) ==
    LET prev == invocations[t][j]
    IN  \E tc \in [TypeCheckIndexes(CandidateOf(prev), type_hierarchy[t])
                      -> TypeCheckAnswers] :
            LET v == verify(CandidateOf(prev), RawOf(prev), constraints[t],
                            type_hierarchy[t], tc)
            IN  /\ ~v.raised
                /\ ~v.is_valid
                /\ v.error_report = err
                /\ Tagged(v.logs, prev.iteration) =
                      SubSeq(invocations[t], j + 1, i - 1)

\* C28: every Refiner call is made in an iteration k >= 2 with the raw text
\* of the generation attempt of iteration k-1 and the error report of the
\* validation of that attempt, a validation that failed; so too when the
\* attempt of iteration k-1 was a Refiner call or one whose llm.invoke
\* raised.
C28_RefinerInputs ==
    \A t \in Threads :
        \A i \in 1..Len(invocations[t]) :
            invocations[t][i].agent = "refiner" =>
                LET e == invocations[t][i]
                    j == PreviousGeneration(t, i)
                IN  /\ e.iteration >= 2
                    /\ \E k \in Generations(t) : k < i
                    /\ invocations[t][j].iteration = e.iteration - 1
                    /\ e.human.raw = RawOf(invocations[t][j])
                    /\ e.human.err # NoError
                    /\ FailedValidation(t, j, i, e.human.err)

\* the Refiner was called in iteration 3 after a Refiner call of iteration 2
\* whose llm.invoke raised, with that attempt's error text and the report of
\* its validation, which differ from those of iteration 1
C28_Witness ==
    /\ Len(invocations[MainThread]) >= 3
    /\ LastGeneration(MainThread).agent = "refiner"
    /\ LastGeneration(MainThread).iteration = 3
    /\ LastGeneration(MainThread).human.raw = RefinerErrorText
    /\ LastGeneration(MainThread).human.err.code = "extract"
    /\ invocations[MainThread][1].response # <<>>
    /\ CandidateOf(invocations[MainThread][1]) # None

\* the number of Solver and Refiner calls of t's solve call
GenerationCount(t) == Cardinality(Generations(t))

\* a step of t that calls the Solver or the Refiner, a step that validates
GenerationStep(t) == Len(invocations'[t]) > Len(invocations[t]) /\ pc[t] = "generate"

ValidationStep(t) == pc[t] = "verify" /\ pc'[t] \in {"verified", "raised"}

\* C29: within one solve call each generation attempt is followed by one
\* validation of its candidate and nothing else in between, a Refiner call
\* comes right after a validation that failed (that of the latest attempt),
\* and after a validation that succeeded solve returns without another
\* generation attempt.
C29_Alternation ==
    /\ [](\A t \in Threads :
            /\ pc[t] = "verify" =>
                  /\ GenerationCount(t) = iteration[t]
                  /\ LastGeneration(t).iteration = iteration[t]
                  /\ solver_output_raw[t] = RawOf(LastGeneration(t))
                  /\ solver_output[t] = CandidateOf(LastGeneration(t))
            /\ (pc[t] = "generate" /\ iteration[t] # 1) =>
                  /\ ~is_valid[t]
                  /\ GenerationCount(t) = iteration[t] - 1
                  /\ FailedValidation(t, PreviousGeneration(t, Len(invocations[t]) + 1),
                                      Len(invocations[t]) + 1, error_report[t])
            /\ (pc[t] \in {"verified", "returned"} /\ is_valid[t]) =>
                  GenerationCount(t) = iteration[t])
    /\ [][\A t \in Threads :
            /\ GenerationCount(t)' # GenerationCount(t) =>
                  \/ /\ pc[t] = "generate"
                     /\ pc'[t] = "verify"
                     /\ GenerationCount(t)' = GenerationCount(t) + 1
                  \/ pc[t] \in {"returned", "raised"} /\ pc'[t] = "while"
            /\ (pc[t] = "verify" /\ pc'[t] # pc[t]) =>
                  ValidationStep(t) /\ GenerationCount(t)' = GenerationCount(t)
            /\ (pc'[t] = "verify" /\ pc[t] # "verify") => GenerationStep(t)
            /\ (pc[t] = "verified" /\ is_valid[t] /\ pc'[t] # pc[t]) =>
                  pc'[t] = "returned"
            /\ (pc[t] = "verified" /\ ~is_valid[t] /\ pc'[t] = "while") =>
                  iteration[t] <= max_retries
            /\ (pc[t] = "while" /\ iteration[t] >= 1 /\ pc'[t] = "generate") =>
                  iteration'[t] # 1 /\ ~is_valid[t]]_vars

\* three attempts, each validated, the third one valid: solve has returned
\* after Solver, Refiner, Refiner
C29_Witness ==
    /\ pc[MainThread] = "returned"
    /\ is_valid[MainThread]
    /\ iteration[MainThread] = 3
    /\ AgentCalls(MainThread, "solver") = 1
    /\ AgentCalls(MainThread, "refiner") = 2

\* the verdicts verify can have given on the latest attempt of t, the
\* oracle having answered as the entries after that attempt record
LastVerdicts(t) ==
    LET j == CHOOSE i \in Generations(t) : \A k \in Generations(t) : k <= i
        g == invocations[t][j]
        tail == SubSeq(invocations[t], j + 1, Len(invocations[t]))
    IN  {v \in {verify(CandidateOf(g), RawOf(g), constraints[t], type_hierarchy[t], tc) :
                  tc \in [TypeCheckIndexes(CandidateOf(g), type_hierarchy[t])
                             -> TypeCheckAnswers]} :
            ~v.raised /\ Tagged(v.logs, g.iteration) = tail}

\* the outcomes of solve as its arguments, max_retries and the oracle
\* answers of the call (the entries of invocations[t]) give them
ReplayOutcomes(t) ==
    IF Generations(t) = {}
    THEN {Outcome(Result("UNKNOWN"), RawText(<<>>), FALSE, NoError, 0)}
    ELSE LET g == LastGeneration(t)
         IN  {IF v.is_valid
              THEN Outcome(CandidateOf(g),
                           IF CandidateOf(g).ownRaw THEN OwnRaw ELSE RawText(RawOf(g)),
                           FALSE, NoError, GenerationCount(t))
              ELSE Outcome(Result("UNKNOWN"), RawText(RawOf(g)), TRUE,
                           v.error_report, GenerationCount(t)) :
              v \in LastVerdicts(t)}

\* the entries of logs come from the oracle calls of t's current solve call
IsPrefix(logs, all) ==
    Len(logs) <= Len(all) /\ logs = SubSeq(all, 1, Len(logs))

\* C30: a solve call starts from the same locals and an empty log list
\* whatever calls came before; when it returns, its outcome is the one its
\* arguments, max_retries and the oracle answers of this call determine, and
\* the log list holds the entries of this call and no others.
C30_NoRetainedState ==
    \A t \in Threads :
        /\ (pc[t] = "while" /\ iteration[t] = 0) =>
              /\ conversation_logs = <<>>
              /\ solver_output_raw[t] = <<>>
              /\ error_report[t] = NoError
        /\ pc[t] = "returned" =>
              /\ ReplayOutcomes(t) = {outcome[t]}
              /\ conversation_logs = invocations[t]
              /\ \A i \in 1..Len(conversation_logs) :
                    conversation_logs[i].iteration \in 1..outcome[t].iterations
        /\ pc[t] = "raised" => IsPrefix(conversation_logs, invocations[t])

\* a second solve call on the orchestrator has returned, with oracle calls
\* of its own
C30_Witness ==
    /\ ncalls[MainThread] = 2
    /\ pc[MainThread] = "returned"
    /\ Len(conversation_logs) >= 2
    /\ outcome[MainThread].iterations >= 2

(***************************************************************************)
(* Properties of verify (continued)                                        *)
(***************************************************************************)
\* what an entry of a valuation violates: check 3d, 3e, 3f
ShapeBad(e) == ~e.isDict \/ e.variable.kind = "absent"

NameBad(e, base) ==
    /\ e.isDict
    /\ e.variable.kind = "str"
    /\ e.variable \notin base
    /\ e.variable \in Placeholders \/ HasRefMarker(e.variable.path)

FieldsBad(e) ==
    /\ e.isDict
    /\ e.type \notin {"<absent>", "null"}
    /\ AbsentKeys(e) # {}

\* the value of "variable" is neither a string nor absent
Malformed(e) == e.isDict /\ e.variable.kind \notin {"str", "absent"}

EntryClean(e, base) ==
    ~ShapeBad(e) /\ ~NameBad(e, base) /\ ~FieldsBad(e) /\ ~Malformed(e)

\* the checks in the order 1, 2, 3a .. 3h, numbered 1 .. 10, and the check
\* an error report comes from
CheckOf(code) ==
    CASE code = "extract" -> 1
      [] code \in {"missing_result", "invalid_result"} -> 2
      [] code \in {"missing_valuation", "valuation_not_array"} -> 3
      [] code = "empty_valuation" -> 4
      [] code = "missing_vars" -> 5
      [] code \in {"entry_not_dict", "entry_missing_variable"} -> 6
      [] code = "invalid_name" -> 7
      [] code = "missing_fields" -> 8
      [] code = "type_incompat" -> 9
      [] code = "conflict" -> 10
      [] OTHER -> 0

\* the candidate of t, with the oracle answers in its log, violates check n
Violates(t, n) ==
    LET c == solver_output[t]
        base == _extract_base_variables_from_constraints(constraints[t])
        sat == c.top = "dict" /\ c.result = "SAT"
    IN  CASE n = 1 -> c = None
          [] n = 2 -> c # None /\ (c.top = "list" \/ c.result \notin {"SAT", "UNSAT", "UNKNOWN"})
          [] n = 3 -> sat /\ c.valKind # "list"
          [] n = 4 -> sat /\ c.valKind = "list" /\ Len(c.valuation) = 0
          [] n = 5 -> SatList(t) /\ MissingBase(t) # {}
          [] n = 6 -> SatList(t) /\ \E i \in 1..Len(c.valuation) : ShapeBad(c.valuation[i])
          [] n = 7 -> SatList(t) /\ \E i \in 1..Len(c.valuation) : NameBad(c.valuation[i], base)
          [] n = 8 -> SatList(t) /\ \E i \in 1..Len(c.valuation) : FieldsBad(c.valuation[i])
          [] n = 9 -> \E i \in TypeCheckLog(t) : Incompatible(invocations[t][i])
          [] n = 10 -> SatList(t) /\ Conflicting(t) # {}

AskedEntries(t) ==
    LET may == TypeCheckIndexes(solver_output[t], type_hierarchy[t])
    IN  {i \in may : Cardinality({j \in may : j <= i}) <= Cardinality(TypeCheckLog(t))}

RootOf(variable) == Str(<<[variable.path[1] EXCEPT !.ref = FALSE]>>)

\* the type checks of t's log that ask about variable
TypeChecksOf(t, variable) ==
    {i \in TypeCheckLog(t) :
        /\ invocations[t][i].human.var = variable
        /\ invocations[t][i].iteration = iteration[t]}

\* C32: when verify accepts a SAT candidate, so that it has gone through all
\* entries, the oracle has been asked about every entry that has a type and
\* whose variable's root has a description in the type hierarchy, and about
\* no entry whose root has none.
C32_RootLookup ==
    \A t \in Threads :
        (pc[t] \in {"verified", "returned"} /\ is_valid[t] /\ SatList(t)) =>
            \A i \in 1..Len(solver_output[t].valuation) :
                LET entry == solver_output[t].valuation[i]
                IN  (entry.variable.kind = "str" /\ entry.type # "<absent>") =>
                        (TypeChecksOf(t, entry.variable) # {}
                            <=> RootOf(entry.variable) \in type_hierarchy[t])

\* verify has reached the name check of entry i of the candidate of t: the
\* checks before the entries and those of the entries before i have passed,
\* and entry i is an object whose variable is a string
NameCheckReached(t, i) ==
    LET c == solver_output[t]
        base == _extract_base_variables_from_constraints(constraints[t])
    IN  /\ pc[t] \in {"verified", "returned"}
        /\ SatList(t)
        /\ i \in 1..Len(c.valuation)
        /\ MissingBase(t) = {}
        /\ \A j \in 1..(i - 1) : EntryClean(c.valuation[j], base)
        /\ \A k \in TypeCheckLog(t) :
              Incompatible(invocations[t][k]) =>
                  Cardinality({j \in AskedEntries(t) : j < i}) < Cardinality(TypeCheckLog(t))
        /\ c.valuation[i].isDict
        /\ c.valuation[i].variable.kind = "str"

\* the name check has rejected entry i
NameRejected(t, i) ==
    /\ ~is_valid[t]
    /\ error_report[t].code = "invalid_name"
    /\ error_report[t].idx = i - 1
    /\ error_report[t].vars = {solver_output[t].valuation[i].variable}

ValidationCalls(t) ==
    {i \in 1..Len(invocations[t]) : \A j \in Generations(t) : j < i}

\* C35: the only oracle calls of verify are type checks; it makes none for a
\* null candidate, a result other than SAT, an empty type hierarchy or a
\* failure of one of the checks 2 .. 3c, at most one per entry, none after
\* a check has failed, and each call leaves one entry in the log of the
\* orchestrator, tagged with the iteration.
C35_OracleCalls ==
    \A t \in Threads :
        (AfterVerify(t) /\ Generations(t) # {}) =>
            LET c == solver_output[t]
                calls == ValidationCalls(t)
            IN  /\ \A i \in calls :
                      /\ invocations[t][i].agent = "verifier"
                      /\ invocations[t][i].stage = "type_check"
                      /\ invocations[t][i].iteration = iteration[t]
                /\ (\/ c = None
                    \/ c.top # "dict"
                    \/ c.result # "SAT"
                    \/ type_hierarchy[t] = {}
                    \/ \E n \in 2..5 : Violates(t, n)) => calls = {}
                /\ Cardinality(calls) <= Cardinality(TypeCheckIndexes(c, type_hierarchy[t]))
                /\ \A i \in calls :
                      Incompatible(invocations[t][i]) => i = Len(invocations[t])
                /\ Len(conversation_logs) = Len(invocations[t])
                /\ \A i \in calls : conversation_logs[i] = invocations[t][i]

(***************************************************************************)
(* Properties of the constraint variable analyzer, for the constraints of  *)
(* SpecAnalyze                                                             *)
(***************************************************************************)
\* the reference chains written in the constraints of t: for each dotted
\* token that begins with a marked segment, its marked segments up to the
\* first segment without marker
WrittenChains(t) ==
    LET toks == ConstraintTokens(constraints[t])
        starts == {p \in toks \X (1..MaxDepth) :
                    /\ p[2] <= Len(p[1])
                    /\ \A i \in 1..p[2] : p[1][i].ref
                    /\ p[2] < Len(p[1]) => ~p[1][p[2] + 1].ref}
    IN  {SubSeq(p[1], 1, p[2]) : p \in starts}

\* no token of the constraints of t has a marker
NoMarker(t) ==
    \A tok \in ConstraintTokens(constraints[t]) : ~HasRefMarker(tok)

\* the Solver has answered with a valuation that holds the one entry x
PlainCandidate(t) ==
    /\ pc[t] \in {"verified", "returned"}
    /\ solver_output[t] = Sat(<<PrimEntry(Str(<<Plain("x")>>))>>)

\* C36: the analyzer returns only tokens that hold the marker (ref), the
\* empty set when no constraint holds one, so that a valuation of a plain
\* name is then accepted; every reference chain written in a constraint,
\* of any depth, is in the set, so that a valuation without an entry for
\* it fails with a report that lists it.
C36_AnalyzerTokens ==
    \A t \in Threads :
        LET base == _extract_base_variables_from_constraints(constraints[t])
        IN  /\ \A v \in base : v.kind = "str" /\ HasRefMarker(v.path)
            /\ NoMarker(t) => base = {}
            /\ \A chain \in WrittenChains(t) : Str(chain) \in base
            /\ PlainCandidate(t) =>
                  /\ is_valid[t] <=> NoMarker(t)
                  /\ ~is_valid[t] =>
                        /\ error_report[t].code = "missing_vars"
                        /\ error_report[t].vars = base
                        /\ \A chain \in WrittenChains(t) :
                              Str(chain) \in error_report[t].vars

\* a constraint on head(ref).next(ref).next(ref): the valuation of x fails
\* with a report that lists the chain of depth 3
C36_Witness ==
    /\ PlainCandidate(MainThread)
    /\ ~is_valid[MainThread]
    /\ <<Ref("head"), Ref("next"), Ref("next")>> \in WrittenChains(MainThread)
    /\ error_report[MainThread].vars = {Str(<<Ref("head"), Ref("next"), Ref("next")>>)}

\* the proper prefixes of the chains p.f(ref) written in the constraints of
\* t that end with a marked segment, as head(ref) of head(ref).next(ref)
MarkedPrefixes(t) ==
    LET toks == ConstraintTokens(constraints[t])
        cuts == {p \in toks \X (1..MaxDepth) :
                    /\ p[2] < Len(p[1])
                    /\ p[1][p[2]].ref
                    /\ p[1][p[2] + 1].ref}
    IN  {SubSeq(p[1], 1, p[2]) : p \in cuts}

\* C37: every marked proper prefix of a chain written in a constraint is
\* in the set the analyzer returns, also when no constraint holds it on its
\* own, so that an entry named by such a prefix is not rejected for its
\* name.
C37_IntermediatePaths ==
    \A t \in Threads :
        /\ \A prefix \in MarkedPrefixes(t) :
              Str(prefix) \in _extract_base_variables_from_constraints(constraints[t])
        /\ (/\ pc[t] \in {"verified", "returned"}
            /\ solver_output[t] = Sat(ExampleValuation)
            /\ head_ref \in MarkedPrefixes(t)) =>
              ~(error_report[t].code = "invalid_name" /\ error_report[t].idx = 0)

\* C38: with max_retries >= 0 the condition of the loop holds whenever it
\* is tested, and a solve call ends by the return of a valid candidate or
\* by the return of the exhaustion outcome, which is UNKNOWN with a
\* non-empty verification_error; it ends in no other way.
C38_LoopExits ==
    \A t \in Threads :
        max_retries >= 0 =>
            /\ pc[t] = "while" => iteration[t] <= max_retries
            /\ Ended(t) =>
                  /\ pc[t] = "returned"
                  /\ \/ /\ is_valid[t]
                        /\ outcome[t].json = solver_output[t]
                        /\ ~outcome[t].has_verification_error
                     \/ /\ ~is_valid[t]
                        /\ outcome[t].json = Result("UNKNOWN")
                        /\ outcome[t].has_verification_error
                        /\ outcome[t].verification_error # NoError
                        /\ outcome[t].verification_error = error_report[t]

(***************************************************************************)
(* Properties of the conversation log                                      *)
(***************************************************************************)
\* the indexes of the entries of the log list that are tagged k
TaggedEntries(k) ==
    {i \in 1..Len(conversation_logs) : conversation_logs[i].iteration = k}

\* C39: between the start and the end of a solve call every change of the
\* log list appends entries to it; the iteration tags of its entries never
\* decrease along the list; and when solve returns with iterations = n, the
\* list holds for every k in 1 .. n exactly one generation entry tagged k,
\* of the Solver for k = 1 and of the Refiner for k >= 2, before the type
\* check entries tagged k, and no entry with another tag.
C39_LogShape ==
    /\ [][\A t \in {MainThread} :
            (conversation_logs' # conversation_logs /\ pc'[t] # "while") =>
                /\ Len(conversation_logs') > Len(conversation_logs)
                /\ IsPrefix(conversation_logs, conversation_logs')]_vars
    /\ [](\A i, j \in 1..Len(conversation_logs) :
            i <= j => conversation_logs[i].iteration <= conversation_logs[j].iteration)
    /\ [](pc[MainThread] = "returned" =>
            LET n == outcome[MainThread].iterations
            IN  /\ \A i \in 1..Len(conversation_logs) :
                      conversation_logs[i].iteration \in 1..n
                /\ \A k \in 1..n :
                      \E g \in TaggedEntries(k) :
                          /\ conversation_logs[g].agent = IF k = 1 THEN "solver" ELSE "refiner"
                          /\ \A i \in TaggedEntries(k) \ {g} :
                                /\ conversation_logs[i].agent = "verifier"
                                /\ conversation_logs[i].stage = "type_check"
                                /\ g < i)

\* solve has returned with iterations 3 and the list holds a type check
\* tagged 1, one tagged 2 and one tagged 3
C39_Witness ==
    /\ pc[MainThread] = "returned"
    /\ outcome[MainThread].iterations = 3
    /\ \A k \in 1..3 :
          \E i \in TaggedEntries(k) : conversation_logs[i].agent = "verifier"

\* C40: what verify returns is consistent: it is valid exactly when its
\* error report is the empty string and exactly when the candidate it
\* returns is not null; a failing validation returns a report that is not
\* empty and no candidate.
C40_ConsistentResult ==
    \A t \in Threads :
        pc[t] = "verified" =>
            /\ is_valid[t] <=> error_report[t] = NoError
            /\ error_report[t] # NoError => error_report[t].code # ""
            /\ \E v \in LastVerdicts(t) :
                  /\ v.is_valid = is_valid[t]
                  /\ v.error_report = error_report[t]
                  /\ v.is_valid <=> v.output # None
                  /\ ~v.is_valid => v.output = None

\* verify has failed on a conflict of a SAT candidate after a type check:
\* a report, no candidate
C40_Witness ==
    /\ pc[MainThread] = "verified"
    /\ ~is_valid[MainThread]
    /\ error_report[MainThread].code = "conflict"
    /\ Cardinality(TypeCheckLog(MainThread)) >= 1
    /\ \E v \in LastVerdicts(MainThread) : v.output = None /\ ~v.is_valid

====
